---- MODULE Spec2Model ----
(***************************************************************************)
(* A model of RandBLAS's sketching kernels (RandBLAS/skge.hh), the COO     *)
(* apply kernel behind the sparse path (RandBLAS/sparse_data/coo.hh) and   *)
(* the counter-based index samplers exercised by test_discrete.cc.         *)
(*                                                                         *)
(* Buffers are functions on 0..len-1 (C indexing).  Scalars are integers.  *)
(* A pointer is a pair (buffer, offset).  A read outside a buffer returns  *)
(* a value chosen nondeterministically by the calling action.              *)
(***************************************************************************)
EXTENDS Integers, Sequences, FiniteSets, TLC

VARIABLES
    S,         \* the sketching operator handed to the kernel (DenseSkOp or SparseSkOp)
    call,      \* the arguments of the kernel call made (NoCall before it)
    A,         \* the buffer A of the call
    B_in,      \* the buffer B on entry
    B,         \* the buffer B on return
    raised,    \* whether the call ended in an error (randblas_require or a C++ exception)
    gemm_args, \* dense: what the call handed to blas::gemm for the operator
    spmm_log,  \* sparse: the operators handed to coo_view_of_skop / left_spmm / right_spmm, in order
    smp        \* samplers: the sampler calls made and what they returned

vars == <<S, call, A, B_in, B, raised, gemm_args, spmm_log, smp>>

(***************************************************************************)
(* Bounds of the model.                                                    *)
(***************************************************************************)
\* The kernel dimensions d, n, m range over 1..MaxDim.
MaxDim == 2
\* A counter word holds values 0..WordMod-1 (the 2^32 of uint32_t, scaled).
WordMod == 8

Layouts == {"ColMajor", "RowMajor"}
Ops == {"NoTrans", "Trans"}
Dims == 1..MaxDim
\* Operators have 2 or 3 rows and columns, so that proper windows exist.
OpDims == {2, 3}
Seeds == {0, 1}
\* (ro_s, co_s): inside, at the edge and outside of the operator.
Offsets == {<<0, 0>>, <<1, 1>>, <<1, 0>>, <<0, 1>>, <<-1, 0>>, <<0, -1>>}
\* (lda, ldb) as a distance from the minor-axis extent of mat(A), mat(B).
LdSlack == {<<0, 0>>, <<1, 1>>, <<-1, 0>>, <<0, -1>>}
AlphaBeta == {<<1, 0>>, <<2, 3>>}
Garbage == {0, 9}

nullptr == <<>>
NoCall == [fn |-> "none"]
NoGemm == [called |-> FALSE]

(***************************************************************************)
(* RNGState and the counter-based generator.                               *)
(***************************************************************************)
\* RNGState(c0, k0): a counter of two words and a key.
RNGState(c0, k0) == [counter |-> <<c0 % WordMod, 0>>, key |-> k0]

\* counter.incr(n): multiword addition with carry, wrapping at the top.
incr(counter, n) ==
    LET v == counter[1] + WordMod * counter[2] + n
    IN  <<v % WordMod, (v \div WordMod) % WordMod>>

\* One generator call yields WordsPerIncr words, each a value in
\* 0..WordTop-1 (the 32-bit outputs, scaled).
WordsPerIncr == 4
WordTop == 11

\* One generator call: a fixed function of (counter, key).
Philox(counter, key) ==
    LET c == counter[1] + WordMod * counter[2]
    IN  [w \in 0..(WordsPerIncr - 1) |->
            (c * c + 5 * c + 3 * key + 7 * w + (c \div 3)) % WordTop]

(***************************************************************************)
(* Dense addressing and the GEMM contract.                                 *)
(***************************************************************************)
RECURSIVE SumTo(_, _)
SumTo(f, n) == IF n = 0 THEN 0 ELSE f[n - 1] + SumTo(f, n - 1)

\* mat(X)[i, j] of a buffer with leading dimension ld.
Idx(layout, i, j, ld) == IF layout = "ColMajor" THEN i + j * ld ELSE i * ld + j

\* A read through a pointer; g is what a read outside the buffer returns.
Rd(buf, p, g) == IF p \in DOMAIN buf THEN buf[p] ELSE g

dims_before_op(m, n, op) == IF op = "NoTrans" THEN <<m, n>> ELSE <<n, m>>

offset_and_ldim(layout, n_rows, n_cols, ro_s, co_s) ==
    IF layout = "ColMajor"
    THEN <<ro_s + n_rows * co_s, n_rows>>
    ELSE <<ro_s * n_cols + co_s, n_cols>>

\* blas::gemm: C := alpha * op(A) * op(B) + beta * C, with op(A) m-by-k,
\* op(B) k-by-n and C m-by-n.  X and Y are the buffers, offX and offY the
\* positions its two input pointers point at.
gemm(layout, transA, transB, m, n, k, alpha, X, offX, ldx, Y, offY, ldy, beta, C, ldc, g) ==
    LET opX(i, l) == IF transA = "NoTrans"
                     THEN Rd(X, offX + Idx(layout, i, l, ldx), g)
                     ELSE Rd(X, offX + Idx(layout, l, i, ldx), g)
        opY(l, j) == IF transB = "NoTrans"
                     THEN Rd(Y, offY + Idx(layout, l, j, ldy), g)
                     ELSE Rd(Y, offY + Idx(layout, j, l, ldy), g)
        dot(i, j) == SumTo([l \in 0..(k - 1) |-> opX(i, l) * opY(l, j)], k)
        cells     == {<<i, j>> \in (0..(m - 1)) \X (0..(n - 1)) : TRUE}
        at(p)     == {ij \in cells : Idx(layout, ij[1], ij[2], ldc) = p}
    IN  [p \in DOMAIN C |->
            IF at(p) = {}
            THEN C[p]
            ELSE LET ij == CHOOSE ij \in at(p) : TRUE
                 IN  alpha * dot(ij[1], ij[2]) + beta * C[p]]

(***************************************************************************)
(* DenseSkOp: fill_dense and submatrix_as_blackbox.                        *)
(***************************************************************************)

\* The window's entries, packed with the operator's layout.
PackWindow(Sk, n_rows, n_cols, ro_s, co_s) ==
    \* Entry (i, j) of the operator defined by (n_rows, n_cols, layout, seed):
    \* the word the generator yields for the entry's position in the buffer.
    LET DenseEntry(Sk1, i, j) ==
            LET pos == Idx(Sk1.layout, i, j, IF Sk1.layout = "ColMajor" THEN Sk1.n_rows ELSE Sk1.n_cols)
            IN  Philox(incr(Sk1.seed_state.counter, pos \div WordsPerIncr),
                       Sk1.seed_state.key)[pos % WordsPerIncr] - (WordTop \div 2)
    IN
        LET ld == IF Sk.layout = "ColMajor" THEN n_rows ELSE n_cols
        IN  [p \in 0..(n_rows * n_cols - 1) |->
                LET i == IF Sk.layout = "ColMajor" THEN p % ld ELSE p \div ld
                    j == IF Sk.layout = "ColMajor" THEN p \div ld ELSE p % ld
                IN  DenseEntry(Sk, ro_s + i, co_s + j)]

\* DenseSkOp(D, seed, nullptr): an operator without a buffer.
DenseSkOp(n_rows, n_cols, layout, seed_state) ==
    [kind |-> "DenseSkOp", n_rows |-> n_rows, n_cols |-> n_cols,
     layout |-> layout, seed_state |-> seed_state, buff |-> nullptr]

\* fill_dense(S): materialize the whole operator into S.buff.
fill_dense(Sk) == [Sk EXCEPT !.buff = PackWindow(Sk, Sk.n_rows, Sk.n_cols, 0, 0)]

\* submatrix_as_blackbox<BLASFriendlyOperator>(S, n_rows, n_cols, ro_s, co_s):
\* the window of S generated into a temporary buffer of its own.
submatrix_as_blackbox(Sk, n_rows, n_cols, ro_s, co_s) ==
    IF ro_s < 0 \/ co_s < 0 \/ ro_s + n_rows > Sk.n_rows \/ co_s + n_cols > Sk.n_cols
    THEN [raised |-> TRUE, op |-> Sk]
    ELSE [raised |-> FALSE,
          op |-> [kind |-> "BLASFriendlyOperator", n_rows |-> n_rows, n_cols |-> n_cols,
                  layout |-> Sk.layout, seed_state |-> Sk.seed_state,
                  buff |-> PackWindow(Sk, n_rows, n_cols, ro_s, co_s)]]

(***************************************************************************)
(* lskge3 and rskge3.  Each returns whether a randblas_require failed, and *)
(* the buffer B and the operator S it leaves.                              *)
(***************************************************************************)
RECURSIVE lskge3(_, _, _, _, _, _, _, _, _, _, _, _, _, _, _, _)
RECURSIVE rskge3(_, _, _, _, _, _, _, _, _, _, _, _, _, _, _, _)

Flip(op) == IF op = "NoTrans" THEN "Trans" ELSE "NoTrans"

\* lskge3's randblas_require checks; TRUE when all pass.
lskge3_require(layout, d, n, Sk, rows_submat_S, cols_submat_S, ro_s, co_s, rows_A, cols_A, lda, ldb) ==
    /\ Sk.buff # nullptr
    /\ Sk.n_rows >= rows_submat_S + ro_s
    /\ Sk.n_cols >= cols_submat_S + co_s
    /\ IF layout = "ColMajor"
       THEN lda >= rows_A /\ ldb >= d
       ELSE lda >= cols_A /\ ldb >= n

lskge3_pos_lds_mut(Sk, layout, ro_s, co_s) ==
    offset_and_ldim(layout, Sk.n_rows, Sk.n_cols, ro_s, co_s)

\* Where the window starts in S.buff, and the operator's leading dimension.
lskge3_pos_lds(Sk, layout, ro_s, co_s) ==
    offset_and_ldim(Sk.layout, Sk.n_rows, Sk.n_cols, ro_s, co_s)

lskge3_opS_mut(Sk, layout, opS) == opS

\* The opS handed to blas::gemm.
lskge3_opS(Sk, layout, opS) == IF Sk.layout # layout THEN Flip(opS) ELSE opS

lskge3_mut(layout, opS, opA, d, n, m, alpha, Sk, ro_s, co_s, Ab, lda, beta, Bb, ldb, g) ==
    LET sub   == dims_before_op(d, m, opS)
        dA    == dims_before_op(m, n, opA)
        fail  == [raised |-> TRUE, B |-> Bb, S |-> Sk, gemm |-> NoGemm]
    IN  IF Sk.kind = "DenseSkOp" /\ Sk.buff = nullptr
        THEN LET bb == submatrix_as_blackbox(Sk, sub[1], sub[2], ro_s, co_s)
             IN  IF bb.raised
                 THEN fail
                 ELSE [lskge3(layout, opS, opA, d, n, m, alpha, bb.op, ro_s, co_s,
                              Ab, lda, beta, Bb, ldb, g) EXCEPT !.S = Sk]
        ELSE IF ~lskge3_require(layout, d, n, Sk, sub[1], sub[2], ro_s, co_s,
                                dA[1], dA[2], lda, ldb)
        THEN fail
        ELSE LET pl   == lskge3_pos_lds(Sk, layout, ro_s, co_s)
                 opS2 == lskge3_opS(Sk, layout, opS)
             IN  [raised |-> FALSE,
                  B |-> gemm(layout, opS2, opA, d, n, m, alpha, Sk.buff, pl[1], pl[2],
                             Ab, 0, lda, beta, Bb, ldb, g),
                  S |-> Sk,
                  gemm |-> [called |-> TRUE, opS |-> opS2, pos |-> pl[1], lds |-> pl[2]]]

lskge3(layout, opS, opA, d, n, m, alpha, Sk, ro_s, co_s, Ab, lda, beta, Bb, ldb, g) ==
    LET sub   == dims_before_op(d, m, opS)
        rows_submat_S == sub[1]
        cols_submat_S == sub[2]
        dA    == dims_before_op(m, n, opA)
        fail  == [raised |-> TRUE, B |-> Bb, S |-> Sk, gemm |-> NoGemm]
    IN  IF Sk.kind = "DenseSkOp" /\ Sk.buff = nullptr
        THEN LET bb == submatrix_as_blackbox(Sk, rows_submat_S, cols_submat_S, ro_s, co_s)
             IN  IF bb.raised
                 THEN fail
                 ELSE [lskge3(layout, opS, opA, d, n, m, alpha, bb.op, 0, 0,
                              Ab, lda, beta, Bb, ldb, g) EXCEPT !.S = Sk]
        ELSE IF ~lskge3_require(layout, d, n, Sk, rows_submat_S, cols_submat_S, ro_s, co_s,
                                dA[1], dA[2], lda, ldb)
        THEN fail
        ELSE LET pl   == lskge3_pos_lds(Sk, layout, ro_s, co_s)
                 opS2 == lskge3_opS(Sk, layout, opS)
             IN  [raised |-> FALSE,
                  B |-> gemm(layout, opS2, opA, d, n, m, alpha, Sk.buff, pl[1], pl[2],
                             Ab, 0, lda, beta, Bb, ldb, g),
                  S |-> Sk,
                  gemm |-> [called |-> TRUE, opS |-> opS2, pos |-> pl[1], lds |-> pl[2]]]

rskge3_opS_mut(Sk, layout, opS) == opS

\* The opS handed to blas::gemm.
rskge3_opS(Sk, layout, opS) == IF Sk.layout # layout THEN Flip(opS) ELSE opS

rskge3(layout, opA, opS, m, d, n, alpha, Ab, lda, Sk, ro_s, co_s, beta, Bb, ldb, g) ==
    LET rskge3_pos_lds ==
            offset_and_ldim(Sk.layout, Sk.n_rows, Sk.n_cols, ro_s, co_s)
    \* rskge3's randblas_require checks; TRUE when all pass.
        rskge3_require(layout1, m1, d1, Sk1, rows_submat_S, cols_submat_S, ro_s1, co_s1, rows_A, cols_A, lda1, ldb1) ==
            /\ Sk1.buff # nullptr
            /\ Sk1.n_rows >= rows_submat_S + ro_s1
            /\ Sk1.n_cols >= cols_submat_S + co_s1
            /\ IF layout1 = "ColMajor"
               THEN lda1 >= rows_A /\ ldb1 >= m1
               ELSE lda1 >= cols_A /\ ldb1 >= d1
    IN
        LET sub   == dims_before_op(n, d, opS)
            rows_submat_S == sub[1]
            cols_submat_S == sub[2]
            dA    == dims_before_op(m, n, opA)
            fail  == [raised |-> TRUE, B |-> Bb, S |-> Sk, gemm |-> NoGemm]
        IN  IF Sk.kind = "DenseSkOp" /\ Sk.buff = nullptr
            THEN LET bb == submatrix_as_blackbox(Sk, rows_submat_S, cols_submat_S, ro_s, co_s)
                 IN  IF bb.raised
                     THEN fail
                     ELSE [rskge3(layout, opA, opS, m, d, n, alpha, Ab, lda, bb.op, 0, 0,
                                  beta, Bb, ldb, g) EXCEPT !.S = Sk]
            ELSE IF ~rskge3_require(layout, m, d, Sk, rows_submat_S, cols_submat_S, ro_s, co_s,
                                    dA[1], dA[2], lda, ldb)
            THEN fail
            ELSE LET pl   == rskge3_pos_lds
                     opS2 == rskge3_opS(Sk, layout, opS)
                 IN  [raised |-> FALSE,
                      B |-> gemm(layout, opA, opS2, m, d, n, alpha, Ab, 0, lda,
                                 Sk.buff, pl[1], pl[2], beta, Bb, ldb, g),
                      S |-> Sk,
                      gemm |-> [called |-> TRUE, opS |-> opS2, pos |-> pl[1], lds |-> pl[2]]]

(***************************************************************************)
(* The dense kernels as a state machine: an operator is constructed, may   *)
(* be filled, and one kernel call is made on it.                           *)
(***************************************************************************)
\* The caller's buffers: len entries, pairwise different.
MkBuf(len, base, step) == [p \in 0..(len - 1) |-> base + step * p]

\* The length of a buffer holding a rows-by-cols matrix with leading dimension ld.
BufLen(layout, rows, cols, ld) == IF layout = "ColMajor" THEN ld * cols ELSE rows * ld

\* The minor-axis extent of a rows-by-cols matrix.
MinorExtent(layout, rows, cols) == IF layout = "ColMajor" THEN rows ELSE cols

DenseInit ==
    /\ \E r \in OpDims, c \in OpDims, lay \in Layouts, s \in Seeds :
           S = DenseSkOp(r, c, lay, RNGState(3 * s + 1, s + 2))
    /\ call = NoCall
    /\ A = nullptr
    /\ B_in = nullptr
    /\ B = nullptr
    /\ raised = FALSE
    /\ gemm_args = NoGemm
    /\ spmm_log = <<>>
    /\ smp = NoCall

FillDense ==
    /\ call = NoCall
    /\ S.buff = nullptr
    /\ S' = fill_dense(S)
    /\ UNCHANGED <<call, A, B_in, B, raised, gemm_args, spmm_log, smp>>

Lskge3Call ==
    /\ call = NoCall
    /\ \E layout \in Layouts, opS \in Ops, opA \in Ops, d \in Dims, n \in Dims, m \in Dims,
          ab \in AlphaBeta, off \in Offsets, sl \in LdSlack :
         LET ro_s == off[1]
             co_s == off[2]
             dA  == dims_before_op(m, n, opA)
             lda == MinorExtent(layout, dA[1], dA[2]) + sl[1]
             ldb == MinorExtent(layout, d, n) + sl[2]
             Ab  == MkBuf(BufLen(layout, dA[1], dA[2], lda), 1, 1)
             Bb  == MkBuf(BufLen(layout, d, n, ldb), 2, 3)
         IN  \E g \in (IF ro_s < 0 \/ co_s < 0 THEN Garbage ELSE {0}) :
               \E r \in {lskge3(layout, opS, opA, d, n, m, ab[1], S, ro_s, co_s,
                               Ab, lda, ab[2], Bb, ldb, g)} :
                   /\ call' = [fn |-> "lskge3", layout |-> layout, opS |-> opS, opA |-> opA,
                               d |-> d, n |-> n, m |-> m, alpha |-> ab[1], beta |-> ab[2],
                               ro_s |-> ro_s, co_s |-> co_s, lda |-> lda, ldb |-> ldb,
                               eye |-> FALSE, S_in |-> S]
                   /\ A' = Ab
                   /\ B_in' = Bb
                   /\ B' = r.B
                   /\ raised' = r.raised
                   /\ S' = r.S
                   /\ gemm_args' = r.gemm
                   /\ UNCHANGED <<spmm_log, smp>>

Rskge3Call ==
    \* The m-by-m identity with leading dimension ld.
    LET Eye(layout, m, ld) ==
            [p \in 0..(BufLen(layout, m, m, ld) - 1) |->
                IF \E i \in 0..(m - 1) : p = Idx(layout, i, i, ld) THEN 1 ELSE 0]
    IN
        /\ call = NoCall
        /\ \E layout \in Layouts, opS \in Ops, opA \in Ops, d \in Dims, n \in Dims, m \in Dims,
              ab \in AlphaBeta, off \in Offsets, sl \in LdSlack :
             LET ro_s == off[1]
                 co_s == off[2]
                 dA  == dims_before_op(m, n, opA)
                 lda == MinorExtent(layout, dA[1], dA[2]) + sl[1]
                 ldb == MinorExtent(layout, m, d) + sl[2]
                 Bb  == MkBuf(BufLen(layout, m, d, ldb), 2, 3)
             IN  \E g \in (IF ro_s < 0 \/ co_s < 0 THEN Garbage ELSE {0}),
                    eye \in (IF m = n /\ opA = "NoTrans" /\ ab = <<1, 0>>
                             THEN BOOLEAN ELSE {FALSE}) :
                 LET Ab == IF eye THEN Eye(layout, m, lda)
                                  ELSE MkBuf(BufLen(layout, dA[1], dA[2], lda), 1, 1)
                 IN
                   \E r \in {rskge3(layout, opA, opS, m, d, n, ab[1], Ab, lda, S, ro_s, co_s,
                                   ab[2], Bb, ldb, g)} :
                       /\ call' = [fn |-> "rskge3", layout |-> layout, opS |-> opS, opA |-> opA,
                                   d |-> d, n |-> n, m |-> m, alpha |-> ab[1], beta |-> ab[2],
                                   ro_s |-> ro_s, co_s |-> co_s, lda |-> lda, ldb |-> ldb,
                                   eye |-> eye, S_in |-> S]
                       /\ A' = Ab
                       /\ B_in' = Bb
                       /\ B' = r.B
                       /\ raised' = r.raised
                       /\ S' = r.S
                       /\ gemm_args' = r.gemm
                       /\ UNCHANGED <<spmm_log, smp>>

SpecDense == DenseInit /\ [][FillDense \/ Lskge3Call \/ Rskge3Call]_vars

(***************************************************************************)
(* COO matrices (sparse_data/coo.hh).  The arrays vals, rows, cols are     *)
(* functions on 0..nnz-1.                                                  *)
(***************************************************************************)

\* coo_sort_type: each flag stays true exactly while every adjacent pair so
\* far is in order, so on exit it is the conjunction over all pairs.
coo_sort_type(nnz, rows, cols) ==
    LET increasing_by_csc(i0, j0, i1, j1) ==
            IF j0 > j1 THEN FALSE ELSE IF j0 = j1 THEN i0 <= i1 ELSE TRUE
        increasing_by_csr(i0, j0, i1, j1) ==
            IF i0 > i1 THEN FALSE ELSE IF i0 = i1 THEN j0 <= j1 ELSE TRUE
    IN
        LET csr_okay == \A ell \in 1..(nnz - 1) :
                            increasing_by_csr(rows[ell - 1], cols[ell - 1], rows[ell], cols[ell])
            csc_okay == \A ell \in 1..(nnz - 1) :
                            increasing_by_csc(rows[ell - 1], cols[ell - 1], rows[ell], cols[ell])
        IN  IF csr_okay THEN "CSR" ELSE IF csc_okay THEN "CSC" ELSE "None"

\* COOMatrix(n_rows, n_cols, nnz, vals, rows, cols, compute_sort_type):
\* the non-owning view constructor.
COOMatrix(n_rows, n_cols, nnz, vals, rows, cols, compute_sort_type) ==
    [n_rows |-> n_rows, n_cols |-> n_cols, index_base |-> "Zero", own_memory |-> FALSE,
     nnz |-> nnz, vals |-> vals, rows |-> rows, cols |-> cols,
     sort |-> IF compute_sort_type THEN coo_sort_type(nnz, rows, cols) ELSE "None"]

\* sort_func of sort_coo_data: strict order on (row, col) or on (col, row).
sort_func(s, r1, c1, r2, c2) ==
    IF s = "CSR"
    THEN IF r1 < r2 THEN TRUE ELSE IF r1 > r2 THEN FALSE ELSE c1 < c2
    ELSE IF c1 < c2 THEN TRUE ELSE IF c1 > c2 THEN FALSE ELSE r1 < r2

\* The sorted triples written back from position p on; rest are the
\* nonzeros of spmat not written yet.
RECURSIVE sort_coo_data_from(_, _, _, _, _)
sort_coo_data_from(s, spmat, rest, p, acc) ==
    \* Whether std::sort puts nonzero e before nonzero o.  The operators built
    \* here hold no two nonzeros at one (row, col), so the sorted order is unique.
    LET SortsBefore(s1, spmat1, e, o) ==
            \/ sort_func(s1, spmat1.rows[e], spmat1.cols[e], spmat1.rows[o], spmat1.cols[o])
            \/ /\ ~sort_func(s1, spmat1.rows[o], spmat1.cols[o], spmat1.rows[e], spmat1.cols[e])
               /\ e < o
    IN
        IF rest = {} THEN acc
        ELSE LET first == CHOOSE e \in rest : \A o \in rest \ {e} : SortsBefore(s, spmat, e, o)
             IN  sort_coo_data_from(s, spmat, rest \ {first}, p + 1,
                     [acc EXCEPT !.vals[p] = spmat.vals[first],
                                 !.rows[p] = spmat.rows[first],
                                 !.cols[p] = spmat.cols[first]])

\* sort_coo_data(s, spmat): sorts the three arrays in place and sets the flag;
\* with s = None the arrays are left as they are.
sort_coo_data(s, spmat) ==
    IF s = "None"
    THEN [spmat EXCEPT !.sort = s]
    ELSE sort_coo_data_from(s, spmat, 0..(spmat.nnz - 1), 0, [spmat EXCEPT !.sort = s])

\* transpose(S): a view with rows and cols exchanged; n_rows and n_cols are
\* passed on in the order the code passes them.
transpose(Sm) ==
    LET srt == IF Sm.sort = "CSC" THEN "CSR" ELSE IF Sm.sort = "CSR" THEN "CSC" ELSE "None"
    IN  [COOMatrix(Sm.n_rows, Sm.n_cols, Sm.nnz, Sm.vals, Sm.cols, Sm.rows, FALSE)
            EXCEPT !.sort = srt]

\* set_filtered_colptr, from nonzero ell on.  new_colptr is the array
\* S_colptr of apply_coo_left (m entries) followed by the cell behind it.
RECURSIVE set_filtered_colptr_from(_, _, _, _, _, _, _)
set_filtered_colptr_from(ell, nnz, colidxs, col_start, col_end, prev_col, new_colptr) ==
    LET Min(a, b) == IF a <= b THEN a ELSE b
    IN
        IF ell >= nnz THEN new_colptr
        ELSE LET curr_col == colidxs[ell]
             IN  IF curr_col < col_start
                 THEN set_filtered_colptr_from(ell + 1, nnz, colidxs, col_start, col_end,
                                               prev_col, new_colptr)
                 ELSE LET colptr_update_limit == Min(curr_col, col_end)
                      IN  set_filtered_colptr_from(ell + 1, nnz, colidxs, col_start, col_end, curr_col,
                              [p \in DOMAIN new_colptr |->
                                  IF (p + col_start) \in (prev_col + 1)..colptr_update_limit
                                  THEN ell ELSE new_colptr[p]])

set_filtered_colptr(nnz, colidxs, col_start, col_end, new_colptr) ==
    set_filtered_colptr_from(0, nnz, colidxs, col_start, col_end, col_start - 1, new_colptr)

\* The k-loop of set_filtered_csc_from_cscoo for one window column.
RECURSIVE filter_column(_, _, _, _, _, _, _)
filter_column(k, k_end, vals, rowidxs, row_start, row_end, acc) ==
    IF k >= k_end THEN acc
    ELSE LET i == rowidxs[k]
         IN  IF i < row_start
             THEN filter_column(k + 1, k_end, vals, rowidxs, row_start, row_end, acc)
             ELSE IF i >= row_end
             THEN acc
             ELSE filter_column(k + 1, k_end, vals, rowidxs, row_start, row_end,
                     [new_nnz |-> acc.new_nnz + 1,
                      new_vals |-> [acc.new_vals EXCEPT ![acc.new_nnz] = vals[k]],
                      new_rowidxs |-> [acc.new_rowidxs EXCEPT ![acc.new_nnz] = i - row_start]])

\* The j-loop of set_filtered_csc_from_cscoo.
RECURSIVE filter_columns(_, _, _, _, _, _, _, _)
filter_columns(j, width, vals, rowidxs, row_start, row_end, new_colptr, acc) ==
    IF j >= width THEN acc
    ELSE filter_columns(j + 1, width, vals, rowidxs, row_start, row_end, new_colptr,
            filter_column(new_colptr[j], new_colptr[j + 1], vals, rowidxs,
                          row_start, row_end, acc))

\* set_filtered_csc_from_cscoo: returns new_nnz and the arrays it wrote.
set_filtered_csc_from_cscoo(vals, rowidxs, colidxs, nnz, col_start, col_end, row_start, row_end, new_vals, new_rowidxs, new_colptr) ==
    LET cp  == set_filtered_colptr(nnz, colidxs, col_start, col_end, new_colptr)
        acc == filter_columns(0, col_end - col_start, vals, rowidxs, row_start, row_end, cp,
                              [new_nnz |-> 0, new_vals |-> new_vals, new_rowidxs |-> new_rowidxs])
    IN  [new_nnz |-> acc.new_nnz, new_vals |-> acc.new_vals,
         new_rowidxs |-> acc.new_rowidxs, new_colptr |-> cp]

\* apply_csc_to_vector_from_left, from column c and nonzero i on:
\* Sv += S * v, with v = &Ab[v0] of stride incv and Sv = &Bb[Sv0] of stride incSv.
RECURSIVE apply_csc_from(_, _, _, _, _, _, _, _, _, _, _, _)
apply_csc_from(c, i, Ab, v0, incv, Bb, Sv0, incSv, n_cols, vals, rowidxs, colptr) ==
    IF c >= n_cols THEN Bb
    ELSE IF i < colptr[c + 1]
    THEN apply_csc_from(c, i + 1, Ab, v0, incv,
                        [Bb EXCEPT ![Sv0 + rowidxs[i] * incSv] = @ + vals[i] * Ab[v0 + c * incv]],
                        Sv0, incSv, n_cols, vals, rowidxs, colptr)
    ELSE apply_csc_from(c + 1, i, Ab, v0, incv, Bb, Sv0, incSv, n_cols, vals, rowidxs, colptr)

apply_csc_to_vector_from_left(Ab, v0, incv, Bb, Sv0, incSv, n_cols, vals, rowidxs, colptr) ==
    apply_csc_from(0, 0, Ab, v0, incv, Bb, Sv0, incSv, n_cols, vals, rowidxs, colptr)

\* Entry (i, j) of a COO matrix: the sum of the values stored at (i, j).
CooEntry(Sm, i, j) ==
    SumTo([ell \in 0..(Sm.nnz - 1) |->
              IF Sm.rows[ell] = i /\ Sm.cols[ell] = j THEN Sm.vals[ell] ELSE 0], Sm.nnz)

\* apply_cscoo_submat_to_vector_from_left(layout_A, layout_B, d, n, m, S0,
\* row_offset, col_offset, A, lda, B, ldb): B += submat(S0) * A.  It is
\* handed no alpha.
apply_cscoo_submat_to_vector_from_left(layout_A, layout_B, d, n, m, S0, row_offset, col_offset, Ab, lda, Bb, ldb) ==
    LET W == [i \in 0..(d - 1), j \in 0..(m - 1) |->
                 CooEntry(S0, row_offset + i, col_offset + j)]
    IN  [p \in DOMAIN Bb |->
            LET i == IF layout_B = "ColMajor" THEN p % ldb ELSE p \div ldb
                k == IF layout_B = "ColMajor" THEN p \div ldb ELSE p % ldb
            IN  IF i < d /\ k < n
                THEN Bb[p] + SumTo([j \in 0..(m - 1) |->
                                       W[i, j] * Ab[Idx(layout_A, j, k, lda)]], m)
                ELSE Bb[p]]

\* The parallel loop of apply_coo_left, from column k on.  Iterations touch
\* disjoint columns of B, so any schedule gives what this order gives.
RECURSIVE apply_coo_left_loop(_, _, _, _, _, _, _, _, _, _, _, _)
apply_coo_left_loop(k, n, m, Ab, A_inter_col_stride, A_intra_col_stride, Bb, B_inter_col_stride, B_intra_col_stride, S_vals, S_rows, S_colptr) ==
    IF k >= n THEN Bb
    ELSE apply_coo_left_loop(k + 1, n, m, Ab, A_inter_col_stride, A_intra_col_stride,
            apply_csc_to_vector_from_left(Ab, A_inter_col_stride * k, A_intra_col_stride,
                                          Bb, B_inter_col_stride * k, B_intra_col_stride,
                                          m, S_vals, S_rows, S_colptr),
            B_inter_col_stride, B_intra_col_stride, S_vals, S_rows, S_colptr)

\* apply_coo_left.  g is what the cell behind the m entries of S_colptr holds
\* when the call begins.  A std::vector of negative length (S0.nnz < 0) ends
\* the call in std::length_error.
apply_coo_left(alpha, layout_A, layout_B, d, n, m, S0, row_offset, col_offset, Ab, lda, Bb, ldb, g) ==
    \* blas::scal(S_nnz, alpha, S_vals, 1) of apply_coo_left.
    LET apply_coo_left_scal(S_nnz, alpha1, S_vals) ==
            [p \in DOMAIN S_vals |-> IF p < S_nnz THEN alpha1 * S_vals[p] ELSE S_vals[p]]
    IN
        IF S0.index_base # "Zero" \/ S0.nnz < 0
        THEN [raised |-> TRUE, B |-> Bb, S0 |-> S0]
        ELSE IF S0.sort # "CSC"
        THEN LET orig_sort == S0.sort
                 S1 == sort_coo_data("CSC", S0)
             IN  [raised |-> FALSE,
                  B |-> apply_cscoo_submat_to_vector_from_left(layout_A, layout_B, d, n, m, S1,
                            row_offset, col_offset, Ab, lda, Bb, ldb),
                  S0 |-> sort_coo_data(orig_sort, S1)]
        ELSE LET S0_nnz == S0.nnz
                 S_rows == [p \in 0..(S0_nnz - 1) |-> 0]
                 S_colptr == [p \in 0..m |-> IF p < m THEN 0 ELSE g]
                 S_vals == [p \in 0..(S0_nnz - 1) |-> 0]
                 f == set_filtered_csc_from_cscoo(S0.vals, S0.rows, S0.cols, S0.nnz,
                          col_offset, col_offset + m, row_offset, row_offset + d,
                          S_vals, S_rows, S_colptr)
                 A_inter_col_stride == IF layout_A = "ColMajor" THEN lda ELSE 1
                 A_intra_col_stride == IF layout_A = "ColMajor" THEN 1 ELSE lda
                 B_inter_col_stride == IF layout_B = "ColMajor" THEN ldb ELSE 1
                 B_intra_col_stride == IF layout_B = "ColMajor" THEN 1 ELSE ldb
             IN  [raised |-> FALSE,
                  B |-> apply_coo_left_loop(0, n, m, Ab, A_inter_col_stride, A_intra_col_stride,
                            Bb, B_inter_col_stride, B_intra_col_stride,
                            apply_coo_left_scal(f.new_nnz, alpha, f.new_vals),
                            f.new_rowidxs, f.new_colptr),
                  S0 |-> S0]

(***************************************************************************)
(* SparseSkOp and the sparse kernels lskges / rskges (skge.hh).            *)
(***************************************************************************)

\* SparseSkOp(dist, seed_state): an operator that owns its memory and is not
\* filled yet (nnz < 0).
SparseSkOp(dist, seed_state) ==
    [kind |-> "SparseSkOp", dist |-> dist, seed_state |-> seed_state, own_memory |-> TRUE,
     nnz |-> -1, rows |-> nullptr, cols |-> nullptr, vals |-> nullptr]

\* fill_sparse(S): vec_nnz nonzeros of value +1 or -1 in every column, at
\* distinct rows drawn from the generator, listed column by column.
fill_sparse(Sk) ==
    LET nnz == Sk.dist.vec_nnz * Sk.dist.n_cols
        h(p) == Philox(incr(Sk.seed_state.counter, p \div Sk.dist.vec_nnz), Sk.seed_state.key)
        r0(p) == h(p)[0] % Sk.dist.n_rows
    IN  [Sk EXCEPT !.nnz = nnz,
                   !.cols = [p \in 0..(nnz - 1) |-> p \div Sk.dist.vec_nnz],
                   !.rows = [p \in 0..(nnz - 1) |->
                                IF p % Sk.dist.vec_nnz = 0 THEN r0(p)
                                ELSE (r0(p) + 1 + (h(p)[1] % (Sk.dist.n_rows - 1))) % Sk.dist.n_rows],
                   !.vals = [p \in 0..(nnz - 1) |->
                                IF h(p)[2 + (p % Sk.dist.vec_nnz)] % 2 = 0 THEN 1 ELSE -1]]

\* coo_view_of_skop(S): a non-owning COOMatrix over the arrays of S.
coo_view_of_skop(Sk) ==
    COOMatrix(Sk.dist.n_rows, Sk.dist.n_cols, Sk.nnz, Sk.vals, Sk.rows, Sk.cols, TRUE)

\* left_spmm: checks the window and the leading dimensions, scales B by beta
\* and accumulates alpha * op(submat(S0)) * op(A) with apply_coo_left, on the
\* transposed view when opS = Trans.
left_spmm(layout, opS, opA, d, n, m, alpha, S0, ro_s, co_s, Ab, lda, beta, Bb, ldb, g) ==
    \* B scaled by beta on the rows-by-cols matrix it holds.
    LET ScaleB(layout1, rows, cols, beta1, Bb1, ldb1) ==
            [p \in DOMAIN Bb |->
                LET i == IF layout1 = "ColMajor" THEN p % ldb1 ELSE p \div ldb1
                    j == IF layout1 = "ColMajor" THEN p \div ldb1 ELSE p % ldb1
                IN  IF i < rows /\ j < cols THEN beta1 * Bb1[p] ELSE Bb1[p]]
    IN
        LET dS == dims_before_op(d, m, opS)
            dA == dims_before_op(m, n, opA)
            ok == /\ S0.n_rows >= dS[1] + ro_s
                  /\ S0.n_cols >= dS[2] + co_s
                  /\ lda >= MinorExtent(layout, dA[1], dA[2])
                  /\ ldb >= MinorExtent(layout, d, n)
            layout_opA == IF opA = "NoTrans" THEN layout
                          ELSE IF layout = "ColMajor" THEN "RowMajor" ELSE "ColMajor"
            B1 == ScaleB(layout, d, n, beta, Bb, ldb)
        IN  IF ~ok THEN [raised |-> TRUE, B |-> Bb, S0 |-> S0]
            ELSE IF opS = "NoTrans"
            THEN apply_coo_left(alpha, layout_opA, layout, d, n, m, S0, ro_s, co_s,
                                Ab, lda, B1, ldb, g)
            ELSE LET r == apply_coo_left(alpha, layout_opA, layout, d, n, m, transpose(S0),
                                         co_s, ro_s, Ab, lda, B1, ldb, g)
                 IN  [raised |-> r.raised, B |-> r.B,
                      S0 |-> [S0 EXCEPT !.vals = r.S0.vals, !.rows = r.S0.cols,
                                        !.cols = r.S0.rows]]

\* right_spmm: the left multiply of the transposed problem, B^T =
\* alpha * op(S)^T * op(A)^T + beta * B^T, read in the other layout.
right_spmm(layout, opA, opS, m, d, n, alpha, Ab, lda, S0, ro_s, co_s, beta, Bb, ldb, g) ==
    left_spmm(IF layout = "ColMajor" THEN "RowMajor" ELSE "ColMajor", Flip(opS), opA,
              d, m, n, alpha, S0, ro_s, co_s, Ab, lda, beta, Bb, ldb, g)

RECURSIVE lskges(_, _, _, _, _, _, _, _, _, _, _, _, _, _, _, _)
RECURSIVE rskges(_, _, _, _, _, _, _, _, _, _, _, _, _, _, _, _)

\* The operator a kernel leaves: the arrays of S as the view handed back.
SkopAfter(Sk, S0) == [Sk EXCEPT !.vals = S0.vals, !.rows = S0.rows, !.cols = S0.cols]

\* lskges without the return that follows the recursive call.
lskges_mut(layout, opS, opA, d, n, m, alpha, Sk, ro_s, co_s, Ab, lda, beta, Bb, ldb, g) ==
    LET shallowcopy == fill_sparse(SparseSkOp(Sk.dist, Sk.seed_state))
        first == IF Sk.nnz < 0
                 THEN lskges(layout, opS, opA, d, n, m, alpha, shallowcopy, ro_s, co_s,
                             Ab, lda, beta, Bb, ldb, g)
                 ELSE [raised |-> FALSE, B |-> Bb, S |-> Sk, log |-> <<>>]
        Scoo == coo_view_of_skop(Sk)
        r == left_spmm(layout, opS, opA, d, n, m, alpha, Scoo, ro_s, co_s,
                       Ab, lda, beta, first.B, ldb, g)
    IN  IF first.raised
        THEN [raised |-> TRUE, B |-> first.B, S |-> Sk, log |-> first.log]
        ELSE [raised |-> r.raised, B |-> r.B, S |-> SkopAfter(Sk, r.S0),
              log |-> first.log \o <<[fn |-> "left_spmm", nnz |-> Sk.nnz]>>]

\* lskges.  log lists the operators handed to coo_view_of_skop and left_spmm.
lskges(layout, opS, opA, d, n, m, alpha, Sk, ro_s, co_s, Ab, lda, beta, Bb, ldb, g) ==
    IF Sk.nnz < 0
    THEN LET shallowcopy == fill_sparse(SparseSkOp(Sk.dist, Sk.seed_state))
             r == lskges(layout, opS, opA, d, n, m, alpha, shallowcopy, ro_s, co_s,
                         Ab, lda, beta, Bb, ldb, g)
         IN  [raised |-> r.raised, B |-> r.B, S |-> Sk, log |-> r.log]
    ELSE LET Scoo == coo_view_of_skop(Sk)
             r == left_spmm(layout, opS, opA, d, n, m, alpha, Scoo, ro_s, co_s,
                            Ab, lda, beta, Bb, ldb, g)
         IN  [raised |-> r.raised, B |-> r.B, S |-> SkopAfter(Sk, r.S0),
              log |-> <<[fn |-> "left_spmm", nnz |-> Sk.nnz]>>]

\* rskges.  The branch for an unfilled S has no return: after the recursive
\* call on the filled copy, control reaches coo_view_of_skop(S) and
\* right_spmm with S itself.  An exception in the recursive call leaves at once.
rskges(layout, opA, opS, m, d, n, alpha, Ab, lda, Sk, ro_s, co_s, beta, Bb, ldb, g) ==
    LET shallowcopy == fill_sparse(SparseSkOp(Sk.dist, Sk.seed_state))
        first == IF Sk.nnz < 0
                 THEN rskges(layout, opA, opS, m, d, n, alpha, Ab, lda, shallowcopy, ro_s, co_s,
                             beta, Bb, ldb, g)
                 ELSE [raised |->  FALSE, B |-> Bb, S |-> Sk, log |-> <<>>]
        Scoo == coo_view_of_skop(Sk)
        r == right_spmm(layout, opA, opS, m, d, n, alpha, Ab, lda, Scoo, ro_s, co_s,
                        beta, first.B, ldb, g)
    IN  IF first.raised
        THEN [raised |-> TRUE, B |-> first.B, S |-> Sk, log |-> first.log]
        ELSE [raised |-> r.raised, B |-> r.B, S |-> SkopAfter(Sk, r.S0),
              log |-> first.log \o <<[fn |-> "right_spmm", nnz |-> Sk.nnz]>>]

(***************************************************************************)
(* The sparse kernels as a state machine: an operator is built, possibly   *)
(* filled, and handed to one lskges or rskges call.                        *)
(***************************************************************************)
SparseOffsets == {<<0, 0>>, <<1, 0>>, <<0, 1>>, <<1, 1>>}
SparseLdSlack == {<<0, 0>>, <<1, 1>>}

\* What the cell behind S_colptr can hold: zero, or the operator's nnz.
ColptrGarbage(Sk) == {0, Sk.dist.vec_nnz * Sk.dist.n_cols}

SparseInit ==
    LET VecNnz == {1, 2}
        SparseDist(n_rows, n_cols, vec_nnz) == [n_rows |-> n_rows, n_cols |-> n_cols, vec_nnz |-> vec_nnz]
    IN
        /\ \E r \in OpDims, c \in OpDims, v \in VecNnz, s \in Seeds :
               S = SparseSkOp(SparseDist(r, c, v), RNGState(3 * s + 1, s + 2))
        /\ call = NoCall
        /\ A = nullptr
        /\ B_in = nullptr
        /\ B = nullptr
        /\ raised = FALSE
        /\ gemm_args = NoGemm
        /\ spmm_log = <<>>
        /\ smp = NoCall

FillSparse ==
    /\ call = NoCall
    /\ S.nnz < 0
    /\ S' = fill_sparse(S)
    /\ UNCHANGED <<call, A, B_in, B, raised, gemm_args, spmm_log, smp>>

LskgesCall ==
    /\ call = NoCall
    /\ \E layout \in Layouts, opS \in Ops, opA \in Ops, d \in Dims, n \in Dims, m \in Dims,
          ab \in AlphaBeta, off \in SparseOffsets, sl \in SparseLdSlack, g \in ColptrGarbage(S) :
         LET dA  == dims_before_op(m, n, opA)
             lda == MinorExtent(layout, dA[1], dA[2]) + sl[1]
             ldb == MinorExtent(layout, d, n) + sl[2]
             Ab  == MkBuf(BufLen(layout, dA[1], dA[2], lda), 1, 1)
             Bb  == MkBuf(BufLen(layout, d, n, ldb), 2, 3)
         IN  \E r \in {lskges(layout, opS, opA, d, n, m, ab[1], S, off[1], off[2],
                             Ab, lda, ab[2], Bb, ldb, g)} :
                 /\ call' = [fn |-> "lskges", layout |-> layout, opS |-> opS, opA |-> opA,
                             d |-> d, n |-> n, m |-> m, alpha |-> ab[1], beta |-> ab[2],
                             ro_s |-> off[1], co_s |-> off[2], lda |-> lda, ldb |-> ldb,
                             g |-> g, S_in |-> S]
                 /\ A' = Ab
                 /\ B_in' = Bb
                 /\ B' = r.B
                 /\ raised' = r.raised
                 /\ S' = r.S
                 /\ spmm_log' = r.log
                 /\ UNCHANGED <<gemm_args, smp>>

RskgesCall ==
    /\ call = NoCall
    /\ \E layout \in Layouts, opS \in Ops, opA \in Ops, d \in Dims, n \in Dims, m \in Dims,
          ab \in AlphaBeta, off \in SparseOffsets, sl \in SparseLdSlack, g \in ColptrGarbage(S) :
         LET dA  == dims_before_op(m, n, opA)
             lda == MinorExtent(layout, dA[1], dA[2]) + sl[1]
             ldb == MinorExtent(layout, m, d) + sl[2]
             Ab  == MkBuf(BufLen(layout, dA[1], dA[2], lda), 1, 1)
             Bb  == MkBuf(BufLen(layout, m, d, ldb), 2, 3)
         IN  \E r \in {rskges(layout, opA, opS, m, d, n, ab[1], Ab, lda, S, off[1], off[2],
                             ab[2], Bb, ldb, g)} :
                 /\ call' = [fn |-> "rskges", layout |-> layout, opS |-> opS, opA |-> opA,
                             d |-> d, n |-> n, m |-> m, alpha |-> ab[1], beta |-> ab[2],
                             ro_s |-> off[1], co_s |-> off[2], lda |-> lda, ldb |-> ldb,
                             g |-> g, S_in |-> S]
                 /\ A' = Ab
                 /\ B_in' = Bb
                 /\ B' = r.B
                 /\ raised' = r.raised
                 /\ S' = r.S
                 /\ spmm_log' = r.log
                 /\ UNCHANGED <<gemm_args, smp>>

SpecSparse == SparseInit /\ [][FillSparse \/ LskgesCall \/ RskgesCall]_vars

(***************************************************************************)
(* The index samplers: sample_indices_iid_uniform, sample_indices_iid and  *)
(* repeated_fisher_yates.                                                  *)
(***************************************************************************)
CtrDiff(a, b) ==
    \* The counter as one number, and the number of increments from a to b.
    LET CtrVal(counter) == counter[1] + WordMod * counter[2]
    IN
        (CtrVal(b) - CtrVal(a)) % (WordMod * WordMod)

\* The increment for num_draws draws of one word each: the number of
\* generator calls they take, ceil(num_draws / WordsPerIncr).
draws_to_incr_mut(num_draws) == num_draws \div WordsPerIncr

draws_to_incr(num_draws) == (num_draws + WordsPerIncr - 1) \div WordsPerIncr

\* DrawWord without the counter increment between generator calls.
DrawWord_mut(state, i) ==
    Philox(state.counter, state.key)[i % WordsPerIncr]

\* The word behind draw i of a stream that starts at state.
DrawWord(state, i) ==
    Philox(incr(state.counter, i \div WordsPerIncr), state.key)[i % WordsPerIncr]

\* sample_indices_iid_uniform(n, k, samples, state): draw i is mapped into
\* [0, n); the state returned is advanced by the increment for k draws.
sample_indices_iid_uniform(n, k, state) ==
    [samples |-> [i \in 0..(k - 1) |-> (DrawWord(state, i) * n) \div WordTop],
     state |-> [state EXCEPT !.counter = incr(state.counter, draws_to_incr(k))]]

\* sample_indices_iid taking the smallest index whose cdf entry is > u.
sample_indices_iid_mut(n, cdf, k, state) ==
    [samples |-> [i \in 0..(k - 1) |->
                    LET hit == {ix \in 0..(n - 1) :
                                   cdf.num[ix] * WordTop > DrawWord(state, i) * cdf.den}
                    IN  IF hit = {} THEN n - 1
                        ELSE CHOOSE ix \in hit : \A other \in hit : ix <= other],
     state |-> [state EXCEPT !.counter = incr(state.counter, draws_to_incr(k))]]

\* A CDF is a record of numerators num[0..n-1] over one denominator den.
\* sample_indices_iid(n, cdf, k, samples, state): slot i gets the smallest
\* index whose cdf entry is >= the uniform variate u = word / WordTop.
sample_indices_iid(n, cdf, k, state) ==
    [samples |-> [i \in 0..(k - 1) |->
                    LET hit == {ix \in 0..(n - 1) :
                                   cdf.num[ix] * WordTop >= DrawWord(state, i) * cdf.den}
                    IN  IF hit = {} THEN n - 1
                        ELSE CHOOSE ix \in hit : \A other \in hit : ix <= other],
     state |-> [state EXCEPT !.counter = incr(state.counter, draws_to_incr(k))]]

\* fisher_yates_from drawing the swap position of every step from [0, n).
RECURSIVE fisher_yates_from_mut(_, _, _, _, _, _, _, _)
fisher_yates_from_mut(i, k, n, base, vec_work, out, counter, key) ==
    IF i >= k THEN [vec_work |-> vec_work, out |-> out, counter |-> counter]
    ELSE LET ell == Philox(counter, key)[0] % n
             swapped == [vec_work EXCEPT ![i] = vec_work[ell], ![ell] = vec_work[i]]
         IN  fisher_yates_from_mut(i + 1, k, n, base, swapped,
                                   [out EXCEPT ![base + i] = swapped[i]], incr(counter, 1), key)

\* One partial Fisher-Yates shuffle, from step i on: vec_work is the
\* permutation, out the indices recorded so far, counter the generator's
\* counter; every step makes one generator call and increments the counter.
RECURSIVE fisher_yates_from(_, _, _, _, _, _, _, _)
fisher_yates_from(i, k, n, base, vec_work, out, counter, key) ==
    IF i >= k THEN [vec_work |-> vec_work, out |-> out, counter |-> counter]
    ELSE LET ell == i + (Philox(counter, key)[0] % (n - i))
             swapped == [vec_work EXCEPT ![i] = vec_work[ell], ![ell] = vec_work[i]]
         IN  fisher_yates_from(i + 1, k, n, base, swapped,
                               [out EXCEPT ![base + i] = swapped[i]], incr(counter, 1), key)

\* The repetitions of repeated_fisher_yates, from repetition t on; each
\* starts from the identity permutation.
RECURSIVE fisher_yates_reps(_, _, _, _, _, _, _)
fisher_yates_reps(t, r, k, n, out, counter, key) ==
    IF t >= r THEN [out |-> out, counter |-> counter]
    ELSE LET rep == fisher_yates_from(0, k, n, t * k, [p \in 0..(n - 1) |-> p],
                                      out, counter, key)
         IN  fisher_yates_reps(t + 1, r, k, n, rep.out, rep.counter, key)

\* repeated_fisher_yates with one more counter increment as the call ends.
repeated_fisher_yates_mut(k, n, r, state) ==
    LET res == fisher_yates_reps(0, r, k, n, [p \in 0..(r * k - 1) |-> 0],
                                 state.counter, state.key)
    IN  [samples |-> res.out, state |-> [state EXCEPT !.counter = incr(res.counter, 1)]]

\* repeated_fisher_yates(k, n, r, samples, state): r shuffles of k steps
\* each; repetition t writes samples[t*k .. t*k + k - 1].
repeated_fisher_yates(k, n, r, state) ==
    LET res == fisher_yates_reps(0, r, k, n, [p \in 0..(r * k - 1) |-> 0],
                                 state.counter, state.key)
    IN  [samples |-> res.out, state |-> [state EXCEPT !.counter = res.counter]]

(***************************************************************************)
(* The samplers as a state machine: one call for all the samples, and two  *)
(* chained calls, the second seeded with the state the first returned.     *)
(***************************************************************************)
\* Samples per call range over 0..MaxSamples, the domain over 1..MaxDomain,
\* repetitions over 1..MaxReps.
MaxSamples == 5
MaxDomain == 3
MaxReps == 2

Keys == {0, 1}

\* A default state moved on by offset increments, as the tests build seeds.
SeedStates ==
    {[counter |-> incr(RNGState(0, key).counter, offset), key |-> key] :
        offset \in 0..(WordMod * WordMod - 1), key \in Keys}

RngInit ==
    /\ smp = NoCall
    /\ S = nullptr
    /\ call = NoCall
    /\ A = nullptr
    /\ B_in = nullptr
    /\ B = nullptr
    /\ raised = FALSE
    /\ gemm_args = NoGemm
    /\ spmm_log = <<>>

SampleIidUniformCalls ==
    /\ smp = NoCall
    /\ \E seed \in SeedStates, n \in 1..MaxDomain, k1 \in 0..MaxSamples, k2 \in 0..MaxSamples :
         LET s1 == sample_indices_iid_uniform(n, k1, seed)
             s2 == sample_indices_iid_uniform(n, k2, s1.state)
             t  == sample_indices_iid_uniform(n, k1 + k2, seed)
         IN  smp' = [fn |-> "sample_indices_iid_uniform", seed |-> seed, n |-> n,
                     k1 |-> k1, k2 |-> k2, s1 |-> s1, s2 |-> s2, t |-> t]
    /\ UNCHANGED <<S, call, A, B_in, B, raised, gemm_args, spmm_log>>

SampleIidCalls ==
    \* The CDF of n equal weights, and of the weights 1, 2, .., n.
    LET Cdfs(n) ==
            {[num |-> [ix \in 0..(n - 1) |-> ix + 1], den |-> n],
             [num |-> [ix \in 0..(n - 1) |-> ((ix + 1) * (ix + 2)) \div 2], den |-> (n * (n + 1)) \div 2]}
    IN
        /\ smp = NoCall
        /\ \E seed \in SeedStates, n \in 1..MaxDomain, k1 \in 0..MaxSamples, k2 \in 0..MaxSamples :
             \E cdf \in Cdfs(n) :
               LET s1 == sample_indices_iid(n, cdf, k1, seed)
                   s2 == sample_indices_iid(n, cdf, k2, s1.state)
                   t  == sample_indices_iid(n, cdf, k1 + k2, seed)
               IN  smp' = [fn |-> "sample_indices_iid", seed |-> seed, n |-> n, cdf |-> cdf,
                           k1 |-> k1, k2 |-> k2, s1 |-> s1, s2 |-> s2, t |-> t]
        /\ UNCHANGED <<S, call, A, B_in, B, raised, gemm_args, spmm_log>>

FisherYatesCalls ==
    /\ smp = NoCall
    /\ \E seed \in SeedStates, n \in 1..MaxDomain, r1 \in 1..MaxReps, r2 \in 1..MaxReps :
         \E k \in 0..n :
           LET s1 == repeated_fisher_yates(k, n, r1, seed)
               s2 == repeated_fisher_yates(k, n, r2, s1.state)
               t  == repeated_fisher_yates(k, n, r1 + r2, seed)
               u  == repeated_fisher_yates(k, n, 1, seed)
           IN  smp' = [fn |-> "repeated_fisher_yates", seed |-> seed, n |-> n, k |-> k,
                       r1 |-> r1, r2 |-> r2, s1 |-> s1, s2 |-> s2, t |-> t, u |-> u]
    /\ UNCHANGED <<S, call, A, B_in, B, raised, gemm_args, spmm_log>>

SpecRng == RngInit /\ [][SampleIidUniformCalls \/ SampleIidCalls \/ FisherYatesCalls]_vars

(***************************************************************************)
(* TrigSkOp and fill_trig (RandBLAS/trig_skops.hh).                        *)
(***************************************************************************)
MAX(a, b) == IF a < b THEN b ELSE a

\* The worker threads of a parallel region number 1..MaxThreads.
MaxThreads == 2

\* TrigSkOp(dist, state, layout): sketchFromLeft is true, so the diagonal
\* has n_rows cells; SampledRows has dim_short cells.
TrigSkOp(dist, state, layout) ==
    \* A cell of an array that new[] allocated and nothing has written.
    LET Unwritten == "unwritten"
    IN
        [kind |-> "TrigSkOp", n_rows |-> dist.n_rows, n_cols |-> dist.n_cols,
         dim_short |-> dist.dim_short, dim_long |-> dist.dim_long, dist |-> dist,
         seed_state |-> state, next_state |-> RNGState(0, 0), layout |-> layout,
         sketchFromLeft |-> TRUE, known_filled |-> FALSE,
         DiagonalRademacher |-> [i \in 0..(dist.n_rows - 1) |-> Unwritten],
         SampledRows |-> [i \in 0..(dist.dim_short - 1) |-> Unwritten]]

\* How a parallel region ran: the number of threads, and for every thread
\* the value its counter word c[1] held, which the code never writes.
RunEnvs ==
    UNION {[nthreads : {nt}, c1 : [0..(nt - 1) -> {0, 1}]] : nt \in 1..MaxThreads}

\* The run on one thread whose counter word c[1] held zero.
SerialRun == [nthreads |-> 1, c1 |-> [th \in {0} |-> 0]]

\* generateRademacherVector_r123(buff, key_seed, ctr_seed, n): entry i is -1
\* when the variate of the generator call for iteration i is below one half.
generateRademacherVector_r123(key_seed, ctr_seed, n, env) ==
    \* One call of the r123::Philox2x32 generator: two words from a counter of
    \* two words and a key of one word.
    LET Philox2x32(c, k) ==
            [w \in 0..1 |-> (c[1] * c[1] + 5 * c[1] + 3 * k + 7 * w + 2 * c[2] + c[1] * c[2]) % WordTop]
    \* The thread that executes iteration i of an omp for over n iterations
    \* (static schedule: contiguous chunks of ceil(n / nthreads) iterations).
        omp_get_thread_num(env1, n1, i) == i \div ((n1 + env1.nthreads - 1) \div env1.nthreads)
    IN
        [i \in 0..(n - 1) |->
            LET th == omp_get_thread_num(env, n, i)
                k == (key_seed + th) % WordMod
                c == <<(ctr_seed + i) % WordMod, env.c1[th]>>
                r == Philox2x32(c, k)
            IN  IF 2 * r[0] < WordTop THEN -1 ELSE 1]

\* fill_trig(Tr): the Rademacher diagonal from word 0 of the seed's key and
\* counter, then dim_short rows out of dim_long by one Fisher-Yates
\* repetition; next_state is the state that returned.
fill_trig(Tr, env) ==
    LET key == Tr.seed_state.key
        ctr == Tr.seed_state.counter
        diag == generateRademacherVector_r123(key, ctr[1],
                    IF Tr.sketchFromLeft THEN Tr.n_rows ELSE Tr.n_cols, env)
        fy == repeated_fisher_yates(Tr.dim_short, Tr.dim_long, 1, Tr.seed_state)
    IN  [Tr EXCEPT !.DiagonalRademacher = diag,
                   !.SampledRows = fy.samples,
                   !.next_state = fy.state,
                   !.known_filled = TRUE]

TrigInit ==
    \* Operators of 1..MaxDim+1 rows and columns, seeded at every counter word 0.
    LET TrigDims == 1..(MaxDim + 1)
        TrigDist(n_rows, n_cols) ==
            LET MIN(a, b) == IF a < b THEN a ELSE b
            IN
                [n_rows |-> n_rows, n_cols |-> n_cols,
                 dim_short |-> MIN(n_rows, n_cols), dim_long |-> MAX(n_rows, n_cols)]
    IN
        /\ \E n_rows \in TrigDims, n_cols \in TrigDims, c0 \in 0..(WordMod - 1), k0 \in Keys :
             \E layout \in Layouts :
               S = TrigSkOp(TrigDist(n_rows, n_cols), RNGState(c0, k0), layout)
        /\ call = NoCall
        /\ A = nullptr
        /\ B_in = nullptr
        /\ B = nullptr
        /\ raised = FALSE
        /\ gemm_args = NoGemm
        /\ spmm_log = <<>>
        /\ smp = NoCall

\* fill_trig on the operator, in some run of the parallel region.
FillTrig ==
    /\ ~S.known_filled
    /\ \E env \in RunEnvs :
         /\ S' = fill_trig(S, env)
         /\ call' = [fn |-> "fill_trig", env |-> env]
    /\ UNCHANGED <<A, B_in, B, raised, gemm_args, spmm_log, smp>>

\* repeated_fisher_yates with r repetitions of k out of n, from the seed
\* state of the operator.
TrigFisherYatesCall ==
    /\ smp = NoCall
    /\ \E n \in 1..MaxDomain, r \in 1..MaxReps :
         \E k \in 0..n :
           smp' = [fn |-> "repeated_fisher_yates", seed |-> S.seed_state, n |-> n, k |-> k,
                   r |-> r, t |-> repeated_fisher_yates(k, n, r, S.seed_state)]
    /\ UNCHANGED <<S, call, A, B_in, B, raised, gemm_args, spmm_log>>

SpecTrig == TrigInit /\ [][FillTrig \/ TrigFisherYatesCall]_vars

\* The number of calls made on one operator.
MaxCalls == 3

\* applyDiagonalRademacher(layout, opA, n, m, diag, A, B): A is copied to
\* B (m-by-n, lda = ldb = m), then column col of B is scaled by diag[col]
\* unless diag[col] > 0.  g is what diag[col] reads behind the cells of diag.
applyDiagonalRademacher(n, m, diag, Ab, g) ==
    [p \in 0..(m * n - 1) |->
        LET dcol == Rd(diag, p \div m, g)
        IN  IF dcol > 0 THEN Ab[p] ELSE dcol * Ab[p]]

\* lskget(layout, opS, opA, d, n, m, alpha, Tr, ro_s, co_s, A, lda, beta, B, ldb).
lskget(n, m, Tr, Ab, env, g) ==
    LET Tr1 == IF ~Tr.known_filled THEN fill_trig(Tr, env) ELSE Tr
    IN  [Tr |-> Tr1, B |-> applyDiagonalRademacher(n, m, Tr1.DiagonalRademacher, Ab, g)]

CallsMade == IF smp = NoCall THEN 0 ELSE smp.n

LskgetCall ==
    /\ CallsMade < MaxCalls
    /\ \E n \in Dims, m \in Dims, g \in {-1, 1},
          env \in IF S.known_filled THEN {SerialRun} ELSE RunEnvs :
         LET Ab == MkBuf(m * n, 1, 1)
             r  == lskget(n, m, S, Ab, env, g)
         IN  /\ S' = r.Tr
             /\ A' = Ab
             /\ B' = r.B
             /\ call' = [fn |-> "lskget", n |-> n, m |-> m, env |-> env, before |-> S]
    /\ smp' = [fn |-> "calls", n |-> CallsMade + 1]
    /\ UNCHANGED <<B_in, raised, gemm_args, spmm_log>>

\* fill_trig called by the user, on a fresh operator or on a filled one.
FillTrigCall ==
    /\ CallsMade < MaxCalls
    /\ \E env \in RunEnvs :
         /\ S' = fill_trig(S, env)
         /\ call' = [fn |-> "fill_trig", env |-> env, before |-> S]
    /\ smp' = [fn |-> "calls", n |-> CallsMade + 1]
    /\ UNCHANGED <<A, B_in, B, raised, gemm_args, spmm_log>>

SpecTrigOps == TrigInit /\ [][LskgetCall \/ FillTrigCall]_vars

(***************************************************************************)
(* weights_to_cdf and sampling from the CDF it builds.                     *)
(***************************************************************************)
\* weights_to_cdf keeping negative weights in the running sum.
weights_to_cdf_mut(n, weights) ==
    [num |-> [ix \in 0..(n - 1) |-> SumTo(weights, ix + 1)], den |-> SumTo(weights, n)]

\* weights_to_cdf(n, weights): negative weights clipped to zero, running
\* sum, every entry divided by the final sum (entry ix is num[ix] / den).
weights_to_cdf(n, weights) ==
    LET clipped == [ix \in 0..(n - 1) |-> MAX(weights[ix], 0)]
    IN  [num |-> [ix \in 0..(n - 1) |-> SumTo(clipped, ix + 1)], den |-> SumTo(clipped, n)]

WeightsToCdfCall ==
    \* Weight vectors of 1..MaxDomain entries, at least one of them positive.
    LET WeightVectors ==
            \* Weights of either sign and zero.
            LET WeightValues == {-1, 0, 1, 2}
            IN
                UNION {{w \in [0..(n - 1) -> WeightValues] : \E ix \in 0..(n - 1) : w[ix] > 0} :
                          n \in 1..MaxDomain}
    IN
        /\ smp = NoCall
        /\ \E weights \in WeightVectors :
             LET n == Cardinality(DOMAIN weights)
             IN  smp' = [fn |-> "weights_to_cdf", n |-> n, weights |-> weights,
                         cdf |-> weights_to_cdf(n, weights)]
        /\ UNCHANGED <<S, call, A, B_in, B, raised, gemm_args, spmm_log>>

\* sample_indices_iid on the CDF that weights_to_cdf built.
SampleOnCdfCall ==
    /\ smp.fn = "weights_to_cdf"
    /\ \E c0 \in 0..(WordMod - 1), k0 \in Keys, k \in 1..MaxSamples :
         smp' = [fn |-> "sample_indices_iid", n |-> smp.n, weights |-> smp.weights,
                 cdf |-> smp.cdf, seed |-> RNGState(c0, k0), k |-> k,
                 t |-> sample_indices_iid(smp.n, smp.cdf, k, RNGState(c0, k0))]
    /\ UNCHANGED <<S, call, A, B_in, B, raised, gemm_args, spmm_log>>

SpecCdf == RngInit /\ [][WeightsToCdfCall \/ SampleOnCdfCall]_vars

(***************************************************************************)
(* COO data given by a caller: coo_sort_type and sort_coo_data on arrays   *)
(* that may hold several nonzeros at one (row, col).                       *)
(***************************************************************************)
\* A COOMatrix given by a caller holds 0..MaxNnz nonzeros.
MaxNnz == 3

\* What sort_coo_data(s, spmat) can leave: std::sort orders the triples by
\* sort_func and leaves the order of triples that sort_func does not
\* separate (same row and column) unspecified.
sort_coo_data_outcomes(s, spmat) ==
    \* The arrays of spmat rearranged by perm: position p holds nonzero perm[p].
    LET Rearranged(s1, spmat1, perm) ==
            [spmat1 EXCEPT !.vals = [p \in 0..(spmat1.nnz - 1) |-> spmat1.vals[perm[p]]],
                          !.rows = [p \in 0..(spmat1.nnz - 1) |-> spmat1.rows[perm[p]]],
                          !.cols = [p \in 0..(spmat1.nnz - 1) |-> spmat1.cols[perm[p]]],
                          !.sort = s1]
    IN
        IF s = "None"
        THEN {[spmat EXCEPT !.sort = s]}
        ELSE {Rearranged(s, spmat, perm) :
                perm \in {f \in [0..(spmat.nnz - 1) -> 0..(spmat.nnz - 1)] :
                            /\ \A p, q \in 0..(spmat.nnz - 1) : p # q => f[p] # f[q]
                            /\ \A p, q \in 0..(spmat.nnz - 1) :
                                 p < q => ~sort_func(s, spmat.rows[f[q]], spmat.cols[f[q]],
                                                        spmat.rows[f[p]], spmat.cols[f[p]])}}

\* The matrices a caller can hand over for one shape and number of
\* nonzeros: any placement of the nonzeros, in any order, repeats included.
CooInputs(n_rows, n_cols, nnz) ==
    \* Values of the nonzeros of a caller's matrix.
    LET CooValues == {1, 2}
    IN
        {COOMatrix(n_rows, n_cols, nnz, vals, rows, cols, TRUE) :
            vals \in [0..(nnz - 1) -> CooValues],
            rows \in [0..(nnz - 1) -> 0..(n_rows - 1)],
            cols \in [0..(nnz - 1) -> 0..(n_cols - 1)]}

\* A view over caller arrays of any shape up to MaxDim with 0..MaxNnz nonzeros.
CooInit ==
    /\ \E n_rows \in Dims, n_cols \in Dims, nnz \in 0..MaxNnz : S \in CooInputs(n_rows, n_cols, nnz)
    /\ call = NoCall
    /\ A = nullptr
    /\ B_in = nullptr
    /\ B = nullptr
    /\ raised = FALSE
    /\ gemm_args = NoGemm
    /\ spmm_log = <<>>
    /\ smp = NoCall

CooSortTypeCall ==
    /\ call = NoCall
    /\ call' = [fn |-> "coo_sort_type", S_in |-> S, out |-> coo_sort_type(S.nnz, S.rows, S.cols)]
    /\ UNCHANGED <<S, A, B_in, B, raised, gemm_args, spmm_log, smp>>

\* sort_coo_data(s, S), and sort_coo_data(s, S) once more on the result.
SortCooDataCall ==
    /\ call = NoCall
    /\ \E s \in {"CSR", "CSC"} :
         \E once \in sort_coo_data_outcomes(s, S) :
           \E twice \in sort_coo_data_outcomes(s, once) :
             /\ S' = twice
             /\ call' = [fn |-> "sort_coo_data", s |-> s, S_in |-> S, once |-> once, twice |-> twice]
    /\ UNCHANGED <<A, B_in, B, raised, gemm_args, spmm_log, smp>>

(***************************************************************************)
(* CSRMatrix and the conversions of RandBLAS/sparse_data/csr.hh.           *)
(***************************************************************************)
\* CSRMatrix(n_rows, n_cols): the owning constructor, nothing reserved yet.
CSRMatrix(n_rows, n_cols) ==
    [n_rows |-> n_rows, n_cols |-> n_cols, index_base |-> "Zero", own_memory |-> TRUE,
     nnz |-> 0, vals |-> nullptr, rowptr |-> nullptr, colidxs |-> nullptr, can_reserve |-> TRUE]

\* An array from new[] is the function of the cells written so far: here
\* none.  rowptr has n_rows + 1 cells, colidxs and vals have nnz cells.
NoCells == <<>>

\* buf with cell p written.
Wr(buf, p, v) == (p :> v) @@ buf

\* CSRMatrix::reserve(nnz): three arrays from new[], no cell written.
csr_reserve(spmat, nnz) ==
    [spmat EXCEPT !.nnz = nnz, !.rowptr = NoCells, !.colidxs = NoCells, !.vals = NoCells,
                  !.can_reserve = FALSE]

\* COOMatrix(n_rows, n_cols): the owning constructor, nothing reserved yet.
COOMatrixOwning(n_rows, n_cols) ==
    [n_rows |-> n_rows, n_cols |-> n_cols, index_base |-> "Zero", own_memory |-> TRUE,
     nnz |-> 0, vals |-> nullptr, rows |-> nullptr, cols |-> nullptr, sort |-> "None",
     can_reserve |-> TRUE]

\* COOMatrix::reserve(nnz).
coo_reserve(spmat, nnz) ==
    [spmat EXCEPT !.nnz = nnz, !.vals = NoCells, !.rows = NoCells, !.cols = NoCells,
                  !.can_reserve = FALSE]

\* The loops of coo_to_csr from row i and nonzero ell on.  The while
\* condition reads coo.rows[ell] with no test of ell against nnz; g is what
\* the cell behind the end of coo.rows holds.
RECURSIVE coo_to_csr_from(_, _, _, _, _, _)
coo_to_csr_from(i, ell, coo, csr, g, oob) ==
    IF i >= coo.n_rows
    THEN [csr |-> csr, oob_read |-> oob.read, oob_write |-> oob.write]
    ELSE IF ell < coo.nnz /\ coo.rows[ell] = i
    THEN coo_to_csr_from(i, ell + 1, coo,
                         [csr EXCEPT !.colidxs = Wr(csr.colidxs, ell, coo.cols[ell]),
                                     !.vals = Wr(csr.vals, ell, coo.vals[ell])],
                         g, oob)
    ELSE IF ell >= coo.nnz /\ g = i
    THEN \* the loop body runs behind the end of the arrays
         [csr |-> csr, oob_read |-> TRUE, oob_write |-> TRUE]
    ELSE coo_to_csr_from(i + 1, ell, coo,
                         IF ell <= csr.n_rows
                         THEN [csr EXCEPT !.rowptr = Wr(csr.rowptr, ell, ell)]
                         ELSE csr,
                         g,
                         [read |-> oob.read \/ ell >= coo.nnz,
                          write |-> oob.write \/ ell > csr.n_rows])

\* coo_to_csr(coo, csr): sorted is what sort_coo_data(CSR, coo) left in coo.
coo_to_csr(sorted, csr, g) ==
    LET reserved == csr_reserve(csr, sorted.nnz)
    IN  coo_to_csr_from(0, 0, sorted, [reserved EXCEPT !.rowptr = Wr(reserved.rowptr, 0, 0)], g,
                        [read |-> FALSE, write |-> FALSE])

\* csr_to_coo(csr, coo): every iteration writes position ell = 0 of coo and
\* stores the loop index j as the column; g is what an unwritten cell of
\* csr.rowptr holds.
csr_to_coo(csr, coo, g) ==
    IF csr.n_rows # coo.n_rows \/ csr.n_cols # coo.n_cols \/ ~coo.can_reserve \/ ~coo.own_memory
    THEN [raised |-> TRUE, coo |-> coo, oob_write |-> FALSE]
    ELSE LET reserved == coo_reserve(coo, csr.nnz)
             busy == {i \in 0..(csr.n_rows - 1) :
                         Rd(csr.rowptr, i, g) < Rd(csr.rowptr, i + 1, g)}
             last == CHOOSE i \in busy : \A o \in busy : o <= i
         IN  IF busy = {}
             THEN [raised |-> FALSE, coo |-> [reserved EXCEPT !.sort = "CSR"], oob_write |-> FALSE]
             ELSE IF csr.nnz = 0
             THEN [raised |-> FALSE, coo |-> [reserved EXCEPT !.sort = "CSR"], oob_write |-> TRUE]
             ELSE [raised |-> FALSE,
                   coo |-> [reserved EXCEPT !.vals = Wr(NoCells, 0, Rd(csr.vals, 0, g)),
                                            !.rows = Wr(NoCells, 0, last),
                                            !.cols = Wr(NoCells, 0, Rd(csr.rowptr, last + 1, g) - 1),
                                            !.sort = "CSR"],
                   oob_write |-> FALSE]

\* MAT(i, j) of a dense buffer under the strides handed to the conversion.
MAT(stride_row, stride_col, i, j) == i * stride_row + j * stride_col

\* The strides csr_to_dense and dense_to_csr derive from the layout.
StridesOf(layout, spmat) ==
    IF layout = "ColMajor" THEN <<1, spmat.n_cols>> ELSE <<spmat.n_rows, 1>>

Abs(x) == IF x < 0 THEN -x ELSE x

\* The entries (i, j) that dense_to_csr keeps, and the position of a kept
\* entry in the row-by-row traversal.
KeptEntries(n_rows, n_cols, strides, mat, abs_tol, g) ==
    {e \in (0..(n_rows - 1)) \X (0..(n_cols - 1)) :
        Abs(Rd(mat, MAT(strides[1], strides[2], e[1], e[2]), g)) > abs_tol}

\* nnz_in_dense: the number of entries above the tolerance.
nnz_in_dense(n_rows, n_cols, strides, mat, abs_tol, g) ==
    Cardinality(KeptEntries(n_rows, n_cols, strides, mat, abs_tol, g))

\* dense_to_csr(layout, mat, abs_tol, spmat): rowptr[i+1] is assigned for
\* every row i and rowptr[0] is not; g is what a read outside mat returns.
dense_to_csr(layout, mat, abs_tol, spmat, g) ==
    LET KeptBefore(kept, i, j) == Cardinality({e \in kept : e[1] < i \/ (e[1] = i /\ e[2] < j)})
    IN
        LET strides == StridesOf(layout, spmat)
            kept == KeptEntries(spmat.n_rows, spmat.n_cols, strides, mat, abs_tol, g)
            reserved == csr_reserve(spmat, nnz_in_dense(spmat.n_rows, spmat.n_cols, strides,
                                                        mat, abs_tol, g))
            at(p) == CHOOSE e \in kept : KeptBefore(kept, e[1], e[2]) = p
        IN  [reserved EXCEPT
                !.vals = [p \in 0..(reserved.nnz - 1) |->
                             Rd(mat, MAT(strides[1], strides[2], at(p)[1], at(p)[2]), g)],
                !.colidxs = [p \in 0..(reserved.nnz - 1) |-> at(p)[2]],
                !.rowptr = [p \in 1..spmat.n_rows |-> KeptBefore(kept, p, 0)]]

\* csr_to_dense(spmat, layout, mat): mat zeroed at every MAT(i, j), then
\* MAT(i, colidxs[ell]) = vals[ell] for the ell of row i; a later write to a
\* cell replaces an earlier one.  len is the length of mat, of which the
\* result holds the cells written; g is what an unwritten cell of rowptr
\* holds.
csr_to_dense(spmat, layout, len, g) ==
    LET strides == StridesOf(layout, spmat)
        cells == {MAT(strides[1], strides[2], i, j) :
                     i \in 0..(spmat.n_rows - 1), j \in 0..(spmat.n_cols - 1)}
        writes == {w \in (0..(spmat.n_rows - 1)) \X (0..(spmat.nnz - 1)) :
                      /\ Rd(spmat.rowptr, w[1], g) <= w[2]
                      /\ w[2] < Rd(spmat.rowptr, w[1] + 1, g)}
        to(w) == MAT(strides[1], strides[2], w[1], spmat.colidxs[w[2]])
        final(p) == CHOOSE w \in writes :
                        /\ to(w) = p
                        /\ \A o \in writes :
                             to(o) = p => (o[1] < w[1] \/ (o[1] = w[1] /\ o[2] <= w[2]))
        written == {p \in cells \cup {to(w) : w \in writes} : p < len}
    IN  [mat |-> [p \in written |->
                     IF \E w \in writes : to(w) = p THEN spmat.vals[final(p)[2]] ELSE 0],
         oob_write |-> \E p \in cells \cup {to(w) : w \in writes} : p >= len]

\* csr_from_diag(vals, nnz, offset, spmat).
csr_from_diag(vals, nnz, offset, spmat) ==
    LET reserved == csr_reserve(spmat, nnz)
        shift == IF offset >= 0 THEN 0 ELSE -offset
        marked == {p \in 0..spmat.n_rows : p < shift + nnz \/ p >= nnz}
    IN  IF nnz > (IF offset >= 0 THEN spmat.n_rows ELSE spmat.n_cols)
        THEN [raised |-> TRUE, csr |-> reserved, oob_write |-> FALSE]
        ELSE [raised |-> FALSE,
              csr |-> [reserved EXCEPT
                          !.rowptr = [p \in marked |->
                                         IF p >= nnz THEN nnz
                                         ELSE IF p < shift THEN 0 ELSE p - shift],
                          !.colidxs = [ell \in 0..(nnz - 1) |->
                                          IF offset >= 0 THEN ell + offset ELSE ell],
                          !.vals = [ell \in 0..(nnz - 1) |-> vals[ell]]],
              oob_write |-> shift > spmat.n_rows + 1 \/ (nnz > 0 /\ nnz - 1 + shift > spmat.n_rows)]

\* coo_from_diag(vals, nnz, offset, spmat) of the tests: the COO form of the
\* same diagonal.
coo_from_diag(vals, nnz, offset, spmat) ==
    IF ~spmat.can_reserve \/ ~spmat.own_memory \/ (offset >= 0 /\ nnz > spmat.n_rows)
    THEN [raised |-> TRUE, coo |-> spmat]
    ELSE [raised |-> FALSE,
          coo |-> [coo_reserve(spmat, nnz) EXCEPT
                      !.rows = [ell \in 0..(nnz - 1) |-> IF offset >= 0 THEN ell ELSE ell - offset],
                      !.cols = [ell \in 0..(nnz - 1) |-> IF offset >= 0 THEN ell + offset ELSE ell],
                      !.vals = [ell \in 0..(nnz - 1) |-> vals[ell]]]]

\* What the cell behind coo.rows can hold: no row, or the last row.
RowsGarbage(coo) == {-1, coo.n_rows - 1}

\* What an unwritten cell of rowptr can hold.
RowptrGarbage(nnz) == {0, nnz}

\* coo_to_csr(S, R) with a fresh R, then csr_to_coo(R, C2) with a fresh C2.
CooToCsrCall ==
    /\ call = NoCall
    /\ S # nullptr
    /\ \E sorted \in sort_coo_data_outcomes("CSR", S), g \in RowsGarbage(S) :
         \E h \in RowptrGarbage(S.nnz) :
           LET res == coo_to_csr(sorted, CSRMatrix(S.n_rows, S.n_cols), g)
               back == csr_to_coo(res.csr, COOMatrixOwning(S.n_rows, S.n_cols), h)
           IN  /\ S' = sorted
               /\ call' = [fn |-> "coo_to_csr", S_in |-> S, csr |-> res.csr,
                           oob_read |-> res.oob_read, oob_write |-> res.oob_write,
                           back |-> back]
    /\ UNCHANGED <<A, B_in, B, raised, gemm_args, spmm_log, smp>>

SpecCoo == CooInit /\ [][CooSortTypeCall \/ SortCooDataCall \/ CooToCsrCall]_vars

\* Entries of a dense matrix, and the tolerances of the conversion.
DenseValues == {-1, 0, 2}

\* A dense buffer of n_rows * n_cols cells for some shape up to MaxDim.
DenseMatInit ==
    /\ \E n_rows \in Dims, n_cols \in Dims : A \in [0..(n_rows * n_cols - 1) -> DenseValues]
    /\ S = nullptr
    /\ call = NoCall
    /\ B_in = nullptr
    /\ B = nullptr
    /\ raised = FALSE
    /\ gemm_args = NoGemm
    /\ spmm_log = <<>>
    /\ smp = NoCall

\* dense_to_csr(layout, A, abs_tol, R) with a fresh R of a shape whose cells
\* A holds, then csr_to_dense(R, layout, M2) into a buffer M2 of that size.
DenseToCsrCall ==
    LET AbsTols == {0, 1}
    IN
        /\ call = NoCall
        /\ A # nullptr
        /\ \E n_rows \in Dims, n_cols \in Dims, layout \in Layouts, abs_tol \in AbsTols :
             /\ n_rows * n_cols = Cardinality(DOMAIN A)
             /\ \E g \in DenseValues :
                  LET csr == dense_to_csr(layout, A, abs_tol, CSRMatrix(n_rows, n_cols), g)
                  IN  \E h \in RowptrGarbage(csr.nnz) :
                        /\ call' = [fn |-> "dense_to_csr", layout |-> layout, abs_tol |-> abs_tol,
                                    csr |-> csr,
                                    back |-> csr_to_dense(csr, layout, n_rows * n_cols, h)]
                        /\ B' = call'.back.mat
        /\ UNCHANGED <<S, A, B_in, raised, gemm_args, spmm_log, smp>>

\* csr_from_diag(vals, nnz, offset, R) with a fresh R.
CsrFromDiagCall ==
    /\ call = NoCall
    /\ \E n_rows \in Dims, n_cols \in Dims, nnz \in 0..MaxDim, offset \in -1..1 :
         LET res == csr_from_diag([ell \in 0..(nnz - 1) |-> ell + 1], nnz, offset,
                                  CSRMatrix(n_rows, n_cols))
         IN  /\ call' = [fn |-> "csr_from_diag", nnz |-> nnz, offset |-> offset, csr |-> res.csr,
                         vals |-> [ell \in 0..(nnz - 1) |-> ell + 1],
                         oob_write |-> res.oob_write]
             /\ raised' = res.raised
    /\ UNCHANGED <<S, A, B_in, B, gemm_args, spmm_log, smp>>

SpecCsr == (CooInit \/ DenseMatInit) /\ [][CooToCsrCall \/ DenseToCsrCall \/ CsrFromDiagCall]_vars

(***************************************************************************)
(* apply_coo_left called on a COOMatrix view, for every window inside it.  *)
(***************************************************************************)
\* The cells of new_colptr that set_filtered_colptr assigns: the scan run on
\* an array of marks.
colptr_assigned(nnz, colidxs, col_start, col_end) ==
    LET m == col_end - col_start
        marked == set_filtered_colptr(nnz, colidxs, col_start, col_end, [p \in 0..m |-> -1])
    IN  {p \in 0..m : marked[p] # -1}

\* apply_coo_left(alpha, layout_A, layout_B, d, n, m, S, row_offset,
\* col_offset, A, lda, B, ldb) for a window inside S.
ApplyCooLeftCall ==
    LET ApplyAlphas == {1, 2}
    IN
        /\ call = NoCall
        /\ \E alpha \in ApplyAlphas, layout_A \in Layouts, layout_B \in Layouts,
              d \in Dims, n \in Dims, m \in Dims, row_offset \in 0..MaxDim, col_offset \in 0..MaxDim,
              g \in {0, S.nnz} :
             /\ row_offset + d <= S.n_rows
             /\ col_offset + m <= S.n_cols
             /\ LET lda == MinorExtent(layout_A, m, n)
                    ldb == MinorExtent(layout_B, d, n)
                    Ab  == MkBuf(BufLen(layout_A, m, n, lda), 1, 1)
                    Bb  == MkBuf(BufLen(layout_B, d, n, ldb), 2, 3)
                    r   == apply_coo_left(alpha, layout_A, layout_B, d, n, m, S, row_offset,
                                          col_offset, Ab, lda, Bb, ldb, g)
                    f   == set_filtered_csc_from_cscoo(S.vals, S.rows, S.cols, S.nnz,
                               col_offset, col_offset + m, row_offset, row_offset + d,
                               [p \in 0..(S.nnz - 1) |-> 0], [p \in 0..(S.nnz - 1) |-> 0],
                               [p \in 0..m |-> IF p < m THEN 0 ELSE g])
                IN  /\ call' = [fn |-> "apply_coo_left", alpha |-> alpha, layout_A |-> layout_A,
                                layout_B |-> layout_B, d |-> d, n |-> n, m |-> m,
                                row_offset |-> row_offset, col_offset |-> col_offset,
                                lda |-> lda, ldb |-> ldb, g |-> g, S_in |-> S,
                                filtered |-> IF S.sort = "CSC" THEN f ELSE <<>>,
                                colptr_assigned |-> colptr_assigned(S.nnz, S.cols, col_offset,
                                                                    col_offset + m)]
                    /\ A' = Ab
                    /\ B_in' = Bb
                    /\ B' = r.B
                    /\ raised' = r.raised
                    /\ S' = r.S0
        /\ UNCHANGED <<gemm_args, spmm_log, smp>>

SpecApply == CooInit /\ [][ApplyCooLeftCall]_vars

(***************************************************************************)
(* reserve() of COOMatrix and CSRMatrix, called directly and through the   *)
(* conversions, on fresh and on populated matrices.  S is the matrix.      *)
(***************************************************************************)

IsCsr(spmat) == "rowptr" \in DOMAIN spmat

\* The two requires that open reserve(), without the own_memory test.
reserve_require_mut(spmat) == spmat.can_reserve

\* The two requires that open reserve().
reserve_require(spmat) == spmat.can_reserve /\ spmat.own_memory

\* spmat.reserve(nnz).
reserve(spmat, nnz) ==
    \* The lengths handed to new[] by reserve(nnz).
    LET reserve_sizes ==
            IF IsCsr(spmat)
            THEN [rowptr |-> spmat.n_rows + 1, colidxs |-> nnz, vals |-> nnz]
            ELSE [vals |-> nnz, rows |-> nnz, cols |-> nnz]
    IN
        IF ~reserve_require(spmat)
        THEN [raised |-> TRUE, mat |-> spmat, sizes |-> <<>>]
        ELSE [raised |-> FALSE,
              mat |-> IF IsCsr(spmat) THEN csr_reserve(spmat, nnz) ELSE coo_reserve(spmat, nnz),
              sizes |-> reserve_sizes]

\* The matrices reserve() is called on: fresh owning matrices and views over
\* caller arrays, of every shape up to MaxDim.
ReserveInit ==
    \* A COOMatrix view with the member _can_reserve, which starts true.
    LET COOMatrixView(n_rows, n_cols, nnz, vals, rows, cols) ==
            [can_reserve |-> TRUE] @@ COOMatrix(n_rows, n_cols, nnz, vals, rows, cols, TRUE)
    \* CSRMatrix(n_rows, n_cols, nnz, vals, rowptr, colidxs): the view constructor.
        CSRMatrixView(n_rows, n_cols, nnz, vals, rowptr, colidxs) ==
            [n_rows |-> n_rows, n_cols |-> n_cols, index_base |-> "Zero", own_memory |-> FALSE,
             nnz |-> nnz, vals |-> vals, rowptr |-> rowptr, colidxs |-> colidxs, can_reserve |-> TRUE]
    IN
        /\ \E n_rows \in Dims, n_cols \in Dims :
             \/ S = COOMatrixOwning(n_rows, n_cols)
             \/ S = CSRMatrix(n_rows, n_cols)
             \/ \E nnz \in 0..1 : \E V \in CooInputs(n_rows, n_cols, nnz) :
                   S = COOMatrixView(n_rows, n_cols, nnz, V.vals, V.rows, V.cols)
             \/ S = CSRMatrixView(n_rows, n_cols, 0, <<>>, [p \in 0..n_rows |-> 0], <<>>)
        /\ call = NoCall
        /\ A = nullptr
        /\ B_in = nullptr
        /\ B = nullptr
        /\ raised = FALSE
        /\ gemm_args = NoGemm
        /\ spmm_log = <<>>
        /\ smp = NoCall

\* S.reserve(nnz), whatever S has been through.
ReserveCall ==
    /\ \E nnz \in 0..MaxNnz :
         LET r == reserve(S, nnz)
         IN  /\ S' = r.mat
             /\ raised' = r.raised
             /\ call' = [fn |-> "reserve", before |-> S, nnz |-> nnz, sizes |-> r.sizes]
    /\ UNCHANGED <<A, B_in, B, gemm_args, spmm_log, smp>>

\* coo_to_csr(C, S) for a CSR matrix S and a view C of its shape.
CooToCsrOnTarget ==
    /\ IsCsr(S)
    /\ \E nnz \in 0..1 : \E C \in CooInputs(S.n_rows, S.n_cols, nnz) :
         \E sorted \in sort_coo_data_outcomes("CSR", C), g \in RowsGarbage(C) :
           LET r == reserve(S, sorted.nnz)
           IN  /\ S' = IF r.raised THEN S ELSE coo_to_csr(sorted, S, g).csr
               /\ raised' = r.raised
               /\ call' = [fn |-> "coo_to_csr", before |-> S, nnz |-> sorted.nnz,
                           sizes |-> r.sizes]
    /\ UNCHANGED <<A, B_in, B, gemm_args, spmm_log, smp>>

\* csr_to_coo(R, S) for a COO matrix S and the identity R of its shape.
CsrToCooOnTarget ==
    /\ ~IsCsr(S)
    /\ LET R == csr_from_diag([ell \in 0..0 |-> 1], 1, 0, CSRMatrix(S.n_rows, S.n_cols)).csr
           r == reserve(S, R.nnz)
           back == csr_to_coo(R, S, 0)
       IN  /\ S' = back.coo
           /\ raised' = back.raised
           /\ call' = [fn |-> "csr_to_coo", before |-> S, nnz |-> R.nnz, sizes |-> r.sizes]
    /\ UNCHANGED <<A, B_in, B, gemm_args, spmm_log, smp>>

\* dense_to_csr(layout, mat, abs_tol, S) for a CSR matrix S.
DenseToCsrOnTarget ==
    /\ IsCsr(S)
    /\ \E layout \in Layouts, v \in DenseValues :
         LET mat == [p \in 0..(S.n_rows * S.n_cols - 1) |-> v]
             strides == StridesOf(layout, S)
             nnz == nnz_in_dense(S.n_rows, S.n_cols, strides, mat, 0, 0)
             r == reserve(S, nnz)
         IN  /\ S' = IF r.raised THEN S ELSE dense_to_csr(layout, mat, 0, S, 0)
             /\ raised' = r.raised
             /\ call' = [fn |-> "dense_to_csr", before |-> S, nnz |-> nnz, sizes |-> r.sizes]
    /\ UNCHANGED <<A, B_in, B, gemm_args, spmm_log, smp>>

\* csr_from_diag(vals, nnz, offset, S) for a CSR matrix S.
CsrFromDiagOnTarget ==
    /\ IsCsr(S)
    /\ \E nnz \in 0..MaxDim, offset \in {-1, 0} :
         LET r == reserve(S, nnz)
             res == csr_from_diag([ell \in 0..(nnz - 1) |-> ell + 1], nnz, offset, S)
         IN  /\ S' = IF r.raised THEN S ELSE res.csr
             /\ raised' = (r.raised \/ res.raised)
             /\ call' = [fn |-> "csr_from_diag", before |-> S, nnz |-> nnz, sizes |-> r.sizes]
    /\ UNCHANGED <<A, B_in, B, gemm_args, spmm_log, smp>>

SpecReserve == ReserveInit /\ [][ReserveCall \/ CooToCsrOnTarget \/ CsrToCooOnTarget \/ DenseToCsrOnTarget \/ CsrFromDiagOnTarget]_vars

(***************************************************************************)
(* RandBLAS::base::RNGState of src/base.cc: two arrays from new[], held by *)
(* pointer.  S maps the live states to their fields, A is the heap: the    *)
(* words of every array, by address.                                       *)
(***************************************************************************)
\* The values a word holds in this part (uint32_t, scaled to one bit).
StateWords == {0, 1}
\* The names of the states a run builds.
StateNames == {"s", "t"}
\* The number of writes to the words of a state that a run makes.
MaxWrites == 1

\* The first address not in use.
FreshAddr(heap) == Cardinality(DOMAIN heap)

\* new uint32_t[len] followed by the assignment of word 0: the other words
\* hold what the allocation left there (junk).
NewWords(len, w0, junk) == [i \in 0..(len - 1) |-> IF i = 0 THEN w0 ELSE junk]

\* RNGState::RNGState(c0, k0): len_c = len_k = 4, ctr and key from new[],
\* ctr[0] = c0, key[0] = k0.
base_RNGState(heap, c0, k0, junk_c, junk_k) ==
    LET len_c == WordsPerIncr
        len_k == WordsPerIncr
        a == FreshAddr(heap)
    IN  [state |-> [len_c |-> len_c, len_k |-> len_k, ctr |-> a, key |-> a + 1],
         heap |-> (a :> NewWords(len_c, c0, junk_c)) @@ (a + 1 :> NewWords(len_k, k0, junk_k))
                  @@ heap]

\* RNGState::RNGState(const RNGState &s): new arrays of the lengths of s,
\* filled by memcpy from the arrays of s.
base_RNGState_copy(heap, s) ==
    LET a == FreshAddr(heap)
    IN  [state |-> [len_c |-> s.len_c, len_k |-> s.len_k, ctr |-> a, key |-> a + 1],
         heap |-> (a :> [i \in 0..(s.len_c - 1) |-> heap[s.ctr][i]])
                  @@ (a + 1 :> [i \in 0..(s.len_k - 1) |-> heap[s.key][i]]) @@ heap]

StateInit ==
    /\ S = <<>>
    /\ A = <<>>
    /\ call = NoCall
    /\ B_in = nullptr
    /\ B = nullptr
    /\ raised = FALSE
    /\ gemm_args = NoGemm
    /\ spmm_log = <<>>
    /\ smp = NoCall

\* RNGState x(c0, k0).
StateConstruct ==
    /\ \E x \in StateNames \ DOMAIN S, c0 \in StateWords, k0 \in StateWords :
         \E junk_c \in StateWords, junk_k \in StateWords :
           LET r == base_RNGState(A, c0, k0, junk_c, junk_k)
           IN  /\ S' = (x :> r.state) @@ S
               /\ A' = r.heap
               /\ call' = [fn |-> "RNGState", x |-> x, c0 |-> c0, k0 |-> k0, writes |-> 0]
    /\ UNCHANGED <<B_in, B, raised, gemm_args, spmm_log, smp>>

\* RNGState x(y).
StateCopy ==
    /\ \E x \in StateNames \ DOMAIN S, y \in DOMAIN S :
           LET r == base_RNGState_copy(A, S[y])
           IN  /\ S' = (x :> r.state) @@ S
               /\ A' = r.heap
               /\ call' = [fn |-> "copy", x |-> x, y |-> y, writes |-> 0]
    /\ UNCHANGED <<B_in, B, raised, gemm_args, spmm_log, smp>>

\* x.ctr[i] = v or x.key[i] = v, once both states exist; a run makes up to
\* MaxWrites of them.
StateWrite ==
    /\ DOMAIN S = StateNames
    /\ call.writes < MaxWrites
    /\ \E x \in DOMAIN S, field \in {"ctr", "key"}, i \in 0..(WordsPerIncr - 1), v \in StateWords :
         LET addr == IF field = "ctr" THEN S[x].ctr ELSE S[x].key
         IN  /\ A' = [A EXCEPT ![addr][i] = v]
             /\ call' = [fn |-> "write", x |-> x, before |-> A, writes |-> call.writes + 1]
    /\ UNCHANGED <<S, B_in, B, raised, gemm_args, spmm_log, smp>>

SpecState == StateInit /\ [][StateConstruct \/ StateCopy \/ StateWrite]_vars

(***************************************************************************)
(* The parallel loop of apply_coo_left, one step of one iteration at a      *)
(* time.  S holds the filtered operator arrays the loop shares, smp the     *)
(* position of every iteration k: its column c, its nonzero i, the value    *)
(* it loaded from B, and the cells of A and B it has touched.               *)
(***************************************************************************)

\* colptr[c+1] as the loop reads it; the m cells of S_colptr end at m - 1.
LoopColptr(c) == IF c < call.m THEN S.colptr[c] ELSE S.behind

\* rowidxs[i] and vals[i]; the S0_nnz cells of S_rows and S_vals end at S0_nnz - 1.
LoopRow(i) == Rd(S.rows, i, S.junk_row)

LoopVal(i) == Rd(S.vals, i, 1)

ParInit ==
    /\ \E n_rows \in Dims, n_cols \in Dims, nnz \in 0..MaxNnz :
         \E S0 \in CooInputs(n_rows, n_cols, nnz) :
         \E layout_A \in Layouts, layout_B \in Layouts, d \in Dims, n \in Dims, m \in Dims,
            row_offset \in 0..MaxDim, col_offset \in 0..MaxDim, g \in {0, S0.nnz} :
           /\ S0.sort = "CSC"
           /\ row_offset + d <= S0.n_rows
           /\ col_offset + m <= S0.n_cols
           /\ LET lda == MinorExtent(layout_A, m, n)
                  ldb == MinorExtent(layout_B, d, n)
                  f == set_filtered_csc_from_cscoo(S0.vals, S0.rows, S0.cols, S0.nnz,
                           col_offset, col_offset + m, row_offset, row_offset + d,
                           [p \in 0..(S0.nnz - 1) |-> 0], [p \in 0..(S0.nnz - 1) |-> 0],
                           [p \in 0..m |-> IF p < m THEN 0 ELSE g])
              IN  /\ \E behind \in {f.new_colptr[m], S0.nnz + 1}, junk_row \in {0, d} :
                        S = [vals |-> f.new_vals, rows |-> f.new_rowidxs,
                             colptr |-> [p \in 0..(m - 1) |-> f.new_colptr[p]],
                             nnz |-> S0.nnz, behind |-> behind, junk_row |-> junk_row]
                  /\ call = [fn |-> "apply_coo_left_loop", layout_A |-> layout_A,
                             layout_B |-> layout_B, d |-> d, n |-> n, m |-> m,
                             lda |-> lda, ldb |-> ldb]
                  /\ A = MkBuf(BufLen(layout_A, m, n, lda), 1, 1)
                  /\ B_in = MkBuf(BufLen(layout_B, d, n, ldb), 2, 3)
                  /\ B = B_in
                  /\ smp = [k \in 0..(n - 1) |->
                               [pc |-> "load", c |-> 0, i |-> 0, tmp |-> 0, wr |-> {}, rd |-> {}]]
    /\ raised = FALSE
    /\ gemm_args = NoGemm
    /\ spmm_log = <<>>

\* Iteration k at `T scale = v[c * incv]` and the test of the while loop.
ParColumn ==
    /\ call.fn = "apply_coo_left_loop"
    /\ \E k \in DOMAIN smp :
           /\ smp[k].pc = "load"
           /\ LET it == smp[k]
                  a  == Idx(call.layout_A, it.c, k, call.lda)
              IN  IF it.c >= call.m
                  THEN smp' = [smp EXCEPT ![k].pc = "done"]
                  ELSE IF it.i < LoopColptr(it.c + 1)
                  THEN smp' = [smp EXCEPT ![k].pc = "store",
                                          ![k].rd = @ \cup {a},
                                          ![k].tmp = Rd(B, Idx(call.layout_B, LoopRow(it.i), k, call.ldb), 0)]
                  ELSE smp' = [smp EXCEPT ![k].c = @ + 1, ![k].rd = @ \cup {a}]
    /\ UNCHANGED <<S, call, A, B_in, B, raised, gemm_args, spmm_log>>

\* Iteration k at the store of `Sv[row * incSv] += (vals[i] * scale)`.
ParStore ==
    /\ call.fn = "apply_coo_left_loop"
    /\ \E k \in DOMAIN smp :
           /\ smp[k].pc = "store"
           /\ LET it == smp[k]
                  p  == Idx(call.layout_B, LoopRow(it.i), k, call.ldb)
                  v  == it.tmp + LoopVal(it.i) * A[Idx(call.layout_A, it.c, k, call.lda)]
              IN  /\ B' = IF p \in DOMAIN B THEN [B EXCEPT ![p] = v] ELSE B
                  /\ smp' = [smp EXCEPT ![k].pc = "load", ![k].i = @ + 1, ![k].wr = @ \cup {p}]
    /\ UNCHANGED <<S, call, A, B_in, raised, gemm_args, spmm_log>>

SpecPar == ParInit /\ [][ParColumn \/ ParStore]_vars

(***************************************************************************)
(* The lifetime of COOMatrix and CSRMatrix objects and of their buffers.   *)
(* S maps every object name to the object, A is the heap: for every        *)
(* address who allocated the buffers there and how often they were         *)
(* released.  The three arrays of a matrix are allocated, shared and       *)
(* released together and stand at one address.                             *)
(***************************************************************************)
ObjNames == {"M", "N", "P"}

\* The addresses new[] and the caller can hand out; 0 is nullptr.
MaxBufs == 2

BufAddrs == 1..MaxBufs

\* COOMatrix(n_rows, n_cols, nnz, vals, rows, cols) and the CSRMatrix likewise:
\* a view of the buffers at address a.
MatrixView(kind, a) ==
    [state |-> "live", kind |-> kind, own_memory |-> FALSE, buf |-> a, can_reserve |-> TRUE]

\* The destructor: delete [] of the three arrays when own_memory is true;
\* delete [] of nullptr does nothing.
Destructor(heap, obj) ==
    IF obj.own_memory /\ obj.buf # 0
    THEN [heap EXCEPT ![obj.buf].released = @ + 1]
    ELSE heap

OwnInit ==
    LET NoBuffer == [by |-> "nobody", released |-> 0]
        NoObject == [state |-> "none", kind |-> "COO", own_memory |-> FALSE, buf |-> 0, can_reserve |-> FALSE]
    IN
        /\ S = [x \in ObjNames |-> NoObject]
        /\ A = [a \in BufAddrs |-> NoBuffer]
        /\ call = NoCall
        /\ B_in = nullptr
        /\ B = nullptr
        /\ raised = FALSE
        /\ gemm_args = NoGemm
        /\ spmm_log = <<>>
        /\ smp = NoCall

OwnConstruct ==
    \* COOMatrix(n_rows, n_cols) and CSRMatrix(n_rows, n_cols): owning, no buffers yet.
    LET OwningMatrix(kind) ==
            [state |-> "live", kind |-> kind, own_memory |-> TRUE, buf |-> 0, can_reserve |-> TRUE]
    IN
        /\ \E x \in ObjNames, kind \in {"COO", "CSR"} :
             /\ S[x].state = "none"
             /\ S' = [S EXCEPT ![x] = OwningMatrix(kind)]
             /\ call' = [fn |-> "construct", x |-> x]
        /\ raised' = FALSE
        /\ UNCHANGED <<A, B_in, B, gemm_args, spmm_log, smp>>

\* The caller allocates buffers and builds a view of them.
OwnConstructView ==
    /\ \E x \in ObjNames, kind \in {"COO", "CSR"}, a \in BufAddrs :
         /\ S[x].state = "none"
         /\ A[a].by = "nobody"
         /\ A' = [A EXCEPT ![a] = [by |-> "caller", released |-> 0]]
         /\ S' = [S EXCEPT ![x] = MatrixView(kind, a)]
         /\ call' = [fn |-> "view", x |-> x]
    /\ raised' = FALSE
    /\ UNCHANGED <<B_in, B, gemm_args, spmm_log, smp>>

\* reserve(nnz) on a live object: new[] hands out an address not in use.
OwnReserve ==
    /\ \E x \in ObjNames :
         /\ S[x].state = "live"
         /\ call' = [fn |-> "reserve", x |-> x]
         /\ IF S[x].can_reserve /\ S[x].own_memory
            THEN \E a \in BufAddrs :
                   /\ A[a].by = "nobody"
                   /\ A' = [A EXCEPT ![a] = [by |-> "matrix", released |-> 0]]
                   /\ S' = [S EXCEPT ![x].buf = a, ![x].can_reserve = FALSE]
                   /\ raised' = FALSE
            ELSE /\ raised' = TRUE
                 /\ UNCHANGED <<S, A>>
    /\ UNCHANGED <<B_in, B, gemm_args, spmm_log, smp>>

\* A matrix passed or assigned by value: the implicit copy constructor
\* copies every member.
OwnCopy ==
    /\ \E x \in ObjNames, y \in ObjNames :
         /\ S[x].state = "live"
         /\ S[y].state = "none"
         /\ S' = [S EXCEPT ![y] = S[x]]
         /\ call' = [fn |-> "copy", x |-> x, y |-> y]
    /\ raised' = FALSE
    /\ UNCHANGED <<A, B_in, B, gemm_args, spmm_log, smp>>

\* y = transpose(x): the parameter S is a copy of x, St is a view of the
\* arrays of S, and S is destroyed when the function returns.
OwnTranspose ==
    /\ \E x \in ObjNames, y \in ObjNames :
         /\ S[x].state = "live"
         /\ S[x].kind = "COO"
         /\ S[y].state = "none"
         /\ LET param == S[x]
                St    == MatrixView("COO", param.buf)
            IN  /\ S' = [S EXCEPT ![y] = St]
                /\ A' = Destructor(A, param)
         /\ call' = [fn |-> "transpose", x |-> x, y |-> y]
    /\ raised' = FALSE
    /\ UNCHANGED <<B_in, B, gemm_args, spmm_log, smp>>

\* The object goes out of scope.
OwnDestroy ==
    /\ \E x \in ObjNames :
         /\ S[x].state = "live"
         /\ A' = Destructor(A, S[x])
         /\ S' = [S EXCEPT ![x].state = "dead"]
         /\ call' = [fn |-> "destroy", x |-> x]
    /\ raised' = FALSE
    /\ UNCHANGED <<B_in, B, gemm_args, spmm_log, smp>>

SpecOwn == OwnInit /\ [][OwnConstruct \/ OwnConstructView \/ OwnReserve \/ OwnCopy \/ OwnTranspose \/ OwnDestroy]_vars

(***************************************************************************)
(* What the claims speak of: the logical matrices of a call.               *)
(***************************************************************************)
\* Entry (i, j) of the operator S, read from its own buffer.
SEntry(Sk, i, j) ==
    Sk.buff[Idx(Sk.layout, i, j, IF Sk.layout = "ColMajor" THEN Sk.n_rows ELSE Sk.n_cols)]

\* op(mat(A))[k, j].
OpMatA(c, k, j) ==
    IF c.opA = "NoTrans" THEN A[Idx(c.layout, k, j, c.lda)] ELSE A[Idx(c.layout, j, k, c.lda)]

\* The documented preconditions of a call on operator Sk.
WindowInside(c, Sk) ==
    LET sub == IF c.fn = "lskge3" THEN dims_before_op(c.d, c.m, c.opS)
                                  ELSE dims_before_op(c.n, c.d, c.opS)
    IN  /\ c.ro_s >= 0 /\ c.co_s >= 0
        /\ c.ro_s + sub[1] <= Sk.n_rows
        /\ c.co_s + sub[2] <= Sk.n_cols

LdsValid(c) ==
    LET dA == dims_before_op(c.m, c.n, c.opA)
        dB == IF c.fn = "lskge3" THEN <<c.d, c.n>> ELSE <<c.m, c.d>>
    IN  /\ c.lda >= MinorExtent(c.layout, dA[1], dA[2])
        /\ c.ldb >= MinorExtent(c.layout, dB[1], dB[2])

Preconditions(c, Sk) == WindowInside(c, Sk) /\ LdsValid(c)

\* C1: for a materialized operator and arguments meeting the documented
\* preconditions, lskge3 returns without failure and leaves
\* mat(B)[i,j] = alpha * sum_{k<m} op(submat(S))[i,k] * op(mat(A))[k,j]
\*               + beta * mat(B_in)[i,j]   for all i < d, j < n.
C1_Lskge3Contract ==
    \* op(submat(S))[i, k] for the window at (ro_s, co_s).
    LET OpSubmat(Sk, opS, ro_s, co_s, i, k) ==
            IF opS = "NoTrans" THEN SEntry(Sk, ro_s + i, co_s + k) ELSE SEntry(Sk, ro_s + k, co_s + i)
    IN
        (call.fn = "lskge3" /\ call.S_in.buff # nullptr /\ Preconditions(call, call.S_in))
        => /\ ~raised
           /\ \A i \in 0..(call.d - 1), j \in 0..(call.n - 1) :
                B[Idx(call.layout, i, j, call.ldb)]
                  = call.alpha * SumTo([k \in 0..(call.m - 1) |->
                                          OpSubmat(call.S_in, call.opS, call.ro_s, call.co_s, i, k)
                                          * OpMatA(call, k, j)], call.m)
                    + call.beta * B_in[Idx(call.layout, i, j, call.ldb)]

C1_Witness ==
    /\ call.fn = "lskge3" /\ call.S_in.buff # nullptr /\ Preconditions(call, call.S_in)
    /\ call.S_in.layout # call.layout /\ call.opS = "Trans" /\ call.opA = "Trans"
    /\ call.ro_s = 1 /\ call.co_s = 1 /\ call.d = 2 /\ call.m = 1 /\ call.n = 2
    /\ call.alpha = 2 /\ call.beta = 3 /\ call.lda > 1
    /\ B # B_in

\* C2: rskge3 applied to the m-by-m identity with opA = NoTrans, alpha = 1
\* and beta = 0 returns the window of the operator as stored in its buffer:
\* B[i,j] = S0[ro_s+i, co_s+j] for opS = NoTrans, and the transpose of the
\* window, B[i,j] = S0[ro_s+j, co_s+i], for opS = Trans.
C2_RightSketchOfEye ==
    (/\ call.fn = "rskge3" /\ call.eye
     /\ call.S_in.buff # nullptr /\ Preconditions(call, call.S_in))
    => /\ ~raised
       /\ \A i \in 0..(call.m - 1), j \in 0..(call.d - 1) :
            B[Idx(call.layout, i, j, call.ldb)]
              = IF call.opS = "NoTrans"
                THEN SEntry(call.S_in, call.ro_s + i, call.co_s + j)
                ELSE SEntry(call.S_in, call.ro_s + j, call.co_s + i)

C2_Witness ==
    /\ call.fn = "rskge3" /\ call.eye
    /\ call.S_in.buff # nullptr /\ Preconditions(call, call.S_in)
    /\ call.opS = "Trans" /\ call.m = 2 /\ call.d = 2
    /\ call.ro_s = 1 /\ call.co_s = 0 /\ call.S_in.n_rows = 3 /\ call.S_in.n_cols = 2
    /\ call.S_in.layout # call.layout
    /\ ~raised /\ B # B_in

\* The kernel of a call, made again on operator Sk.
SameCallOn(c, Sk) ==
    IF c.fn = "lskge3"
    THEN lskge3(c.layout, c.opS, c.opA, c.d, c.n, c.m, c.alpha, Sk, c.ro_s, c.co_s,
                A, c.lda, c.beta, B_in, c.ldb, 0)
    ELSE rskge3(c.layout, c.opA, c.opS, c.m, c.d, c.n, c.alpha, A, c.lda, Sk, c.ro_s, c.co_s,
                c.beta, B_in, c.ldb, 0)

\* C3: on an operator without a buffer, lskge3 and rskge3 leave the B that
\* the same call leaves on the operator filled in full by fill_dense, for
\* every window inside the operator, and the operator still has no buffer.
C3_UnmaterializedEqualsFilled ==
    (call.fn # "none" /\ call.S_in.buff = nullptr /\ WindowInside(call, call.S_in))
    => /\ raised = SameCallOn(call, fill_dense(call.S_in)).raised
       /\ B = SameCallOn(call, fill_dense(call.S_in)).B
       /\ S.buff = nullptr
       /\ S = call.S_in

C3_Witness ==
    /\ call.fn = "lskge3" /\ call.S_in.buff = nullptr /\ Preconditions(call, call.S_in)
    /\ call.ro_s = 1 /\ call.co_s = 1 /\ call.S_in.n_rows = 3 /\ call.d = 2 /\ call.m = 2
    /\ ~raised /\ B # B_in /\ S.buff = nullptr

\* C4: when S.layout differs from the layout argument, the kernels hand
\* blas::gemm the opposite opS, with the offset and leading dimension of the
\* operator's own layout; B is what the call leaves for the operator with
\* the same entries stored in the requested layout, and the operator and
\* its buffer are as on entry.
C4_LayoutMismatchFlipsOpS ==
    \* The operator with the same entries, stored in the given layout.
    LET Relayout(Sk, layout) ==
            [Sk EXCEPT !.layout = layout,
                       !.buff = [p \in DOMAIN Sk.buff |->
                                   LET ld == IF layout = "ColMajor" THEN Sk.n_rows ELSE Sk.n_cols
                                   IN  IF layout = "ColMajor"
                                       THEN SEntry(Sk, p % ld, p \div ld)
                                       ELSE SEntry(Sk, p \div ld, p % ld)]]
    IN
        (/\ call.fn # "none" /\ call.S_in.buff # nullptr
         /\ call.S_in.layout # call.layout /\ Preconditions(call, call.S_in))
        => /\ ~raised
           /\ gemm_args.called
           /\ gemm_args.opS = Flip(call.opS)
           /\ gemm_args.lds = (IF call.S_in.layout = "ColMajor"
                               THEN call.S_in.n_rows ELSE call.S_in.n_cols)
           /\ gemm_args.pos = Idx(call.S_in.layout, call.ro_s, call.co_s, gemm_args.lds)
           /\ B = SameCallOn(call, Relayout(call.S_in, call.layout)).B
           /\ S = call.S_in

C4_Witness ==
    /\ call.fn = "rskge3" /\ call.S_in.buff # nullptr
    /\ call.S_in.layout = "RowMajor" /\ call.layout = "ColMajor"
    /\ Preconditions(call, call.S_in)
    /\ call.S_in.n_rows = 2 /\ call.S_in.n_cols = 3 /\ call.co_s = 1
    /\ gemm_args.called /\ gemm_args.opS = "Trans" /\ call.opS = "NoTrans"
    /\ B # B_in

\* C5 (as claimed): a call whose leading dimensions are too small or whose
\* window does not lie inside the operator (too far right or down, or at a
\* negative offset) fails before blas::gemm is called and leaves B as it was.
C5_InvalidCallRaises ==
    (call.fn # "none" /\ ~Preconditions(call, call.S_in))
    => (raised /\ ~gemm_args.called /\ B = B_in)

(***************************************************************************)
(* The sparse kernels.                                                     *)
(***************************************************************************)
\* The operator (S.dist, S.seed_state) after fill_sparse.
Filled(Sk) == fill_sparse(SparseSkOp(Sk.dist, Sk.seed_state))

\* C6: lskges on an operator with nnz < 0 fills a private copy built from
\* (S.dist, S.seed_state), hands that copy to left_spmm exactly once and
\* returns; B is what lskges leaves on the already filled operator, and S is
\* as on entry, with nnz still negative.
C6_LskgesUnfilledFillsPrivateCopy ==
    (call.fn = "lskges" /\ call.S_in.nnz < 0)
    => /\ Len(spmm_log) = 1
       /\ spmm_log[1].nnz = Filled(call.S_in).nnz
       /\ B = lskges(call.layout, call.opS, call.opA, call.d, call.n, call.m, call.alpha,
                     Filled(call.S_in), call.ro_s, call.co_s, A, call.lda, call.beta,
                     B_in, call.ldb, call.g).B
       /\ S = call.S_in
       /\ S.nnz < 0

C6_Witness ==
    /\ call.fn = "lskges" /\ call.S_in.nnz < 0
    /\ call.S_in.dist.vec_nnz = 2 /\ call.d = 2 /\ call.m = 2 /\ call.n = 2
    /\ call.alpha = 2 /\ call.beta = 3
    /\ ~raised /\ Len(spmm_log) = 1
    /\ \E p \in DOMAIN B : B[p] # call.beta * B_in[p]

\* C7 (as claimed): rskges on an operator with nnz < 0 updates B exactly
\* once, with the filled operator: B is what one rskges call leaves on the
\* operator fill_sparse builds from (S.dist, S.seed_state), and no operator
\* with nnz < 0 reaches coo_view_of_skop / right_spmm.
C7_RskgesUnfilledUpdatesOnce ==
    (call.fn = "rskges" /\ call.S_in.nnz < 0)
    => /\ Len(spmm_log) = 1
       /\ \A e \in 1..Len(spmm_log) : spmm_log[e].nnz >= 0
       /\ raised = rskges(call.layout, call.opA, call.opS, call.m, call.d, call.n, call.alpha,
                          A, call.lda, Filled(call.S_in), call.ro_s, call.co_s, call.beta,
                          B_in, call.ldb, call.g).raised
       /\ B = rskges(call.layout, call.opA, call.opS, call.m, call.d, call.n, call.alpha,
                     A, call.lda, Filled(call.S_in), call.ro_s, call.co_s, call.beta,
                     B_in, call.ldb, call.g).B

\* C8 (as claimed): lskges obeys the GEMM contract: on exit mat(B) =
\* alpha * op(submat(S)) * op(mat(A)) + beta * mat(B_in); with beta = 0 the
\* result does not depend on B on entry.
C8_LskgesGemmContract ==
    \* op(submat(S))[i, k] for the operator of a sparse call.
    LET OpSubmatSparse(c, i, k) ==
            LET Sm == coo_view_of_skop(Filled(c.S_in))
            IN  IF c.opS = "NoTrans" THEN CooEntry(Sm, c.ro_s + i, c.co_s + k)
                                     ELSE CooEntry(Sm, c.ro_s + k, c.co_s + i)
    \* The documented requirements on a sparse call's arguments.
        SparsePreconditions(c) ==
            LET dS == IF c.fn = "lskges" THEN dims_before_op(c.d, c.m, c.opS)
                                         ELSE dims_before_op(c.n, c.d, c.opS)
            IN  /\ c.ro_s >= 0 /\ c.co_s >= 0
                /\ c.ro_s + dS[1] <= c.S_in.dist.n_rows
                /\ c.co_s + dS[2] <= c.S_in.dist.n_cols
                /\ LdsValid(c)
    IN
        (call.fn = "lskges" /\ SparsePreconditions(call))
        => /\ ~raised
           /\ \A i \in 0..(call.d - 1), j \in 0..(call.n - 1) :
                B[Idx(call.layout, i, j, call.ldb)]
                  = call.alpha * SumTo([k \in 0..(call.m - 1) |->
                                           OpSubmatSparse(call, i, k) * OpMatA(call, k, j)], call.m)
                    + call.beta * B_in[Idx(call.layout, i, j, call.ldb)]

(***************************************************************************)
(* The samplers.                                                           *)
(***************************************************************************)
\* C9: repeated_fisher_yates(k, n, r1 + r2) from a seed writes the same
\* (r1 + r2) * k indices and returns the same counter as the call with r1
\* repetitions followed by the call with r2 repetitions seeded with the
\* state the first returned and writing from position r1 * k on; and the
\* counter increment of r repetitions is r times that of one repetition.
C9_FisherYatesSplitsByRepetition ==
    (smp.fn = "repeated_fisher_yates")
    => /\ \A p \in 0..((smp.r1 + smp.r2) * smp.k - 1) :
            smp.t.samples[p] = IF p < smp.r1 * smp.k
                               THEN smp.s1.samples[p]
                               ELSE smp.s2.samples[p - smp.r1 * smp.k]
       /\ smp.t.state = smp.s2.state
       /\ CtrDiff(smp.seed.counter, smp.s1.state.counter)
            = (smp.r1 * CtrDiff(smp.seed.counter, smp.u.state.counter)) % (WordMod * WordMod)
       /\ CtrDiff(smp.seed.counter, smp.t.state.counter)
            = ((smp.r1 + smp.r2) * CtrDiff(smp.seed.counter, smp.u.state.counter))
                % (WordMod * WordMod)

C9_Witness ==
    /\ smp.fn = "repeated_fisher_yates"
    /\ smp.n = 3 /\ smp.k = 2 /\ smp.r1 = 1 /\ smp.r2 = 2
    /\ smp.t.state.counter # smp.seed.counter
    /\ \E p \in 0..1 : smp.t.samples[p] # smp.t.samples[p + 2]
    /\ \E p \in 0..5 : smp.t.samples[p] # p % 2

\* C10 (amended): for sample_indices_iid and sample_indices_iid_uniform, two
\* chained calls of k samples each advance counter word 0 by the same amount,
\* and the counter word c1 after one call of 2k samples and c2 after the two
\* chained calls satisfy c2 = c1 or c2 = c1 + 1 in the word's wrap-around
\* arithmetic.
C10_IidCounterWithinOneModWord ==
    (smp.fn \in {"sample_indices_iid", "sample_indices_iid_uniform"} /\ smp.k1 = smp.k2)
    => /\ (smp.s1.state.counter[1] - smp.seed.counter[1]) % WordMod
            = (smp.s2.state.counter[1] - smp.s1.state.counter[1]) % WordMod
       /\ (smp.s2.state.counter[1] - smp.t.state.counter[1]) % WordMod \in {0, 1}

C10_Witness ==
    /\ smp.fn \in {"sample_indices_iid", "sample_indices_iid_uniform"}
    /\ smp.k1 = 5 /\ smp.k2 = 5
    /\ smp.t.state.counter[1] = WordMod - 1
    /\ smp.s2.state.counter[1] = 0

\* C10 (as claimed): the same, with c1 <= c2 <= c1 + 1 as an inequality
\* between the values of counter word 0.
C10_IidCounterWithinOne ==
    (smp.fn \in {"sample_indices_iid", "sample_indices_iid_uniform"} /\ smp.k1 = smp.k2)
    => /\ (smp.s1.state.counter[1] - smp.seed.counter[1]) % WordMod
            = (smp.s2.state.counter[1] - smp.s1.state.counter[1]) % WordMod
       /\ smp.t.state.counter[1] <= smp.s2.state.counter[1]
       /\ smp.s2.state.counter[1] <= smp.t.state.counter[1] + 1

\* The k1 + k2 indices of the two chained calls, position by position.
ChainedSamples(p) ==
    IF p < smp.k1 THEN smp.s1.samples[p] ELSE smp.s2.samples[p - smp.k1]

\* C11 (amended): for sample_indices_iid and sample_indices_iid_uniform, the
\* first k1 indices of one call for k1 + k2 samples equal the k1 indices of
\* the first chained call; the remaining k2 indices equal those of the second
\* chained call when k1 is a multiple of the number of draws one counter
\* increment supplies.
C11_IidSplitsAtIncrementBoundary ==
    (smp.fn \in {"sample_indices_iid", "sample_indices_iid_uniform"})
    => /\ \A p \in 0..(smp.k1 - 1) : smp.t.samples[p] = smp.s1.samples[p]
       /\ (smp.k1 % WordsPerIncr = 0)
            => \A p \in 0..(smp.k1 + smp.k2 - 1) : smp.t.samples[p] = ChainedSamples(p)

C11_Witness ==
    /\ smp.fn \in {"sample_indices_iid", "sample_indices_iid_uniform"}
    /\ smp.k1 = WordsPerIncr /\ smp.k2 = 3 /\ smp.n = 3
    /\ \E p, q \in smp.k1..(smp.k1 + smp.k2 - 1) : smp.t.samples[p] # smp.t.samples[q]
    /\ \E p \in 0..(smp.k2 - 1) : smp.s2.samples[p] # smp.s1.samples[p]

\* C11 (as claimed): the same equality of the k1 + k2 indices for every k1,
\* a multiple of the draws per counter increment or not.
C11_IidSplitsAnywhere ==
    (smp.fn \in {"sample_indices_iid", "sample_indices_iid_uniform"})
    => \A p \in 0..(smp.k1 + smp.k2 - 1) : smp.t.samples[p] = ChainedSamples(p)

(***************************************************************************)
(* fill_trig and the validity of the Fisher-Yates samples.                 *)
(***************************************************************************)
\* The indices that repetition t of k samples wrote into out.
FisherYatesBlock(out, t, k) == {out[t * k + p] : p \in 0..(k - 1)}

\* C12: every repetition of repeated_fisher_yates(k, d, r) writes k pairwise
\* distinct indices of [0, d) into its own block out[t*k .. t*k + k - 1], and
\* after fill_trig SampledRows holds dim_short distinct indices of
\* [0, dim_long).
C12_FisherYatesValidity ==
    /\ (smp.fn = "repeated_fisher_yates")
         => /\ DOMAIN smp.t.samples = 0..(smp.r * smp.k - 1)
            /\ \A t \in 0..(smp.r - 1) :
                 /\ FisherYatesBlock(smp.t.samples, t, smp.k) \subseteq 0..(smp.n - 1)
                 /\ Cardinality(FisherYatesBlock(smp.t.samples, t, smp.k)) = smp.k
    /\ S.known_filled
         => /\ DOMAIN S.SampledRows = 0..(S.dim_short - 1)
            /\ FisherYatesBlock(S.SampledRows, 0, S.dim_short) \subseteq 0..(S.dim_long - 1)
            /\ Cardinality(FisherYatesBlock(S.SampledRows, 0, S.dim_short)) = S.dim_short

C12_Witness ==
    /\ S.known_filled /\ S.dim_short = 2 /\ S.dim_long = 3
    /\ S.SampledRows # <<0, 1>> /\ S.SampledRows[0] # 0
    /\ smp.fn = "repeated_fisher_yates" /\ smp.k = 2 /\ smp.n = 3 /\ smp.r = 2
    /\ FisherYatesBlock(smp.t.samples, 0, 2) # FisherYatesBlock(smp.t.samples, 1, 2)

(***************************************************************************)
(* weights_to_cdf and the indices sampled from its CDF.                    *)
(***************************************************************************)
\* C13: for weights of any sign with at least one positive entry,
\* weights_to_cdf leaves the normalized running sum of max(w_i, 0): the
\* entries are non-decreasing, lie in [0, 1], the last one is 1, and no error
\* is raised for negative weights.
C13_WeightsToCdf ==
    (smp.fn = "weights_to_cdf")
    => /\ ~raised
       /\ smp.cdf.den > 0
       /\ smp.cdf.num[0] = (IF smp.weights[0] > 0 THEN smp.weights[0] ELSE 0)
       /\ \A ix \in 1..(smp.n - 1) :
            /\ smp.cdf.num[ix] - smp.cdf.num[ix - 1]
                 = (IF smp.weights[ix] > 0 THEN smp.weights[ix] ELSE 0)
            /\ smp.cdf.num[ix - 1] <= smp.cdf.num[ix]
       /\ \A ix \in 0..(smp.n - 1) : 0 <= smp.cdf.num[ix] /\ smp.cdf.num[ix] <= smp.cdf.den
       /\ smp.cdf.num[smp.n - 1] = smp.cdf.den

C13_Witness ==
    /\ smp.fn = "weights_to_cdf"
    /\ smp.weights = [ix \in 0..2 |-> IF ix = 0 THEN 2 ELSE IF ix = 1 THEN -1 ELSE 1]
    /\ smp.cdf.num[1] = 2 /\ smp.cdf.den = 3

\* The word behind slot i of the recorded sample_indices_iid call; the
\* uniform variate of the slot is u = SlotWord(i) / WordTop.
SlotWord(i) == DrawWord(smp.seed, i)

\* Whether cdf[ix] >= u for the variate of slot i.
CdfReaches(ix, i) == smp.cdf.num[ix] * WordTop >= SlotWord(i) * smp.cdf.den

\* C14 (amended): sample_indices_iid writes into every slot the smallest
\* index i with cdf[i] >= u, an index of [0, n); the index has positive
\* weight whenever u > 0, and for u = 0 it is index 0 whatever its weight.
\* With all mass on one index every slot with u > 0 holds that index.
C14_IidSmallestIndexPositiveVariate ==
    (smp.fn = "sample_indices_iid")
    => \A i \in 0..(smp.k - 1) :
         LET ix == smp.t.samples[i]
         IN  /\ ix \in 0..(smp.n - 1)
             /\ CdfReaches(ix, i)
             /\ \A below \in 0..(ix - 1) : ~CdfReaches(below, i)
             /\ (SlotWord(i) > 0) => smp.weights[ix] > 0
             /\ (SlotWord(i) = 0) => ix = 0
             /\ (SlotWord(i) > 0)
                  => \A only \in 0..(smp.n - 1) :
                       (\A other \in 0..(smp.n - 1) : smp.weights[other] > 0 <=> other = only)
                       => ix = only

C14_Witness ==
    /\ smp.fn = "sample_indices_iid"
    /\ smp.n = 3 /\ smp.weights[0] = 0 /\ smp.weights[1] = 2 /\ smp.weights[2] = 0
    /\ \E i \in 0..(smp.k - 1) : SlotWord(i) = 0 /\ smp.t.samples[i] = 0
    /\ \E i \in 0..(smp.k - 1) : SlotWord(i) > 0 /\ smp.t.samples[i] = 1

\* C14 (as claimed): the same for every variate: no written index has zero
\* weight, and with all mass on one index every sample equals that index.
C14_IidNeverZeroWeight ==
    (smp.fn = "sample_indices_iid")
    => \A i \in 0..(smp.k - 1) :
         LET ix == smp.t.samples[i]
         IN  /\ ix \in 0..(smp.n - 1)
             /\ CdfReaches(ix, i)
             /\ \A below \in 0..(ix - 1) : ~CdfReaches(below, i)
             /\ smp.weights[ix] > 0
             /\ \A only \in 0..(smp.n - 1) :
                  (\A other \in 0..(smp.n - 1) : smp.weights[other] > 0 <=> other = only)
                  => ix = only

(***************************************************************************)
(* The Rademacher diagonal of fill_trig.                                   *)
(***************************************************************************)
\* C15: for a fixed seed state and shape, fill_trig writes the same
\* DiagonalRademacher in every run: the vector of the run on one thread with
\* a zero counter word, whatever the number of threads, the thread that ran
\* an iteration and the content of the counter word the code leaves unset.
C15_RademacherSameInEveryRun ==
    S.known_filled
    => S.DiagonalRademacher
         = generateRademacherVector_r123(S.seed_state.key, S.seed_state.counter[1],
                                         S.n_rows, SerialRun)

(***************************************************************************)
(* COO sort order.                                                         *)
(***************************************************************************)
\* (a1, a2) <= (b1, b2) in lexicographic order.
LexLeq(a1, a2, b1, b2) == a1 < b1 \/ (a1 = b1 /\ a2 <= b2)

\* Adjacent nonzeros of M non-decreasing in (row, col) order, in (col, row) order.
CsrSorted(M) ==
    \A ell \in 1..(M.nnz - 1) : LexLeq(M.rows[ell - 1], M.cols[ell - 1], M.rows[ell], M.cols[ell])

CscSorted(M) ==
    \A ell \in 1..(M.nnz - 1) : LexLeq(M.cols[ell - 1], M.rows[ell - 1], M.cols[ell], M.rows[ell])

\* C16: coo_sort_type tells four cases apart: CSR-sorted only, CSC-sorted
\* only, neither, and sorted in both orders, whose outcome is none of the
\* outcomes of the other three cases.
C16_CooSortTypeFourOutcomes ==
    (call.fn = "coo_sort_type")
    => /\ (CsrSorted(call.S_in) /\ ~CscSorted(call.S_in)) => call.out = "CSR"
       /\ (~CsrSorted(call.S_in) /\ CscSorted(call.S_in)) => call.out = "CSC"
       /\ (~CsrSorted(call.S_in) /\ ~CscSorted(call.S_in)) => call.out = "None"
       /\ (CsrSorted(call.S_in) /\ CscSorted(call.S_in)) => call.out \notin {"CSR", "CSC", "None"}

\* C17: sort_coo_data(s, .) on arrays already non-decreasing in order s
\* leaves vals, rows and cols as they are, repeated (row, col) included, and
\* sorting twice leaves what sorting once leaves.
C17_SortCooDataIdempotent ==
    (call.fn = "sort_coo_data")
    => /\ (IF call.s = "CSR" THEN CsrSorted(call.S_in) ELSE CscSorted(call.S_in))
            => /\ call.once.vals = call.S_in.vals
               /\ call.once.rows = call.S_in.rows
               /\ call.once.cols = call.S_in.cols
       /\ call.twice = call.once

(***************************************************************************)
(* The CSR conversions.                                                    *)
(***************************************************************************)
\* C18: coo_to_csr(C, R) then csr_to_coo(R, C2) on a zero-based C reads no
\* cell behind the end of C's arrays (and writes none behind R's), and C2
\* has the nnz of C and the triples of C listed in CSR order.
C18_CooCsrRoundTrip ==
    (call.fn = "coo_to_csr")
    => /\ ~call.oob_read
       /\ ~call.oob_write
       /\ ~call.back.raised
       /\ ~call.back.oob_write
       /\ call.back.coo.nnz = call.S_in.nnz
       /\ \E listed \in sort_coo_data_outcomes("CSR", call.S_in) :
            /\ call.back.coo.vals = listed.vals
            /\ call.back.coo.rows = listed.rows
            /\ call.back.coo.cols = listed.cols

\* C19: dense_to_csr(layout, M, abs_tol, R) then csr_to_dense(R, layout, M2)
\* leaves M2[i,j] = M[i,j] where |M[i,j]| > abs_tol and 0 elsewhere, entry
\* (i, j) being cell i + j*n_rows in ColMajor and i*n_cols + j in RowMajor.
C19_DenseCsrRoundTrip ==
    \* The address of entry (i, j) of an n_rows x n_cols dense matrix.
    LET DenseAddr(layout, n_rows, n_cols, i, j) ==
            IF layout = "ColMajor" THEN i + j * n_rows ELSE i * n_cols + j
    IN
        (call.fn = "dense_to_csr")
        => /\ ~call.back.oob_write
           /\ \A i \in 0..(call.csr.n_rows - 1), j \in 0..(call.csr.n_cols - 1) :
                LET p == DenseAddr(call.layout, call.csr.n_rows, call.csr.n_cols, i, j)
                IN  /\ p \in DOMAIN B
                    /\ B[p] = (IF Abs(A[p]) > call.abs_tol THEN A[p] ELSE 0)

\* C20: a CSRMatrix returned by coo_to_csr, dense_to_csr or csr_from_diag has
\* all n_rows + 1 cells of rowptr assigned, rowptr[0] = 0, rowptr
\* non-decreasing and rowptr[n_rows] = nnz.
C20_CsrInvariantOnReturn ==
    (call.fn \in {"coo_to_csr", "dense_to_csr", "csr_from_diag"} /\ ~raised)
    => /\ DOMAIN call.csr.rowptr = 0..call.csr.n_rows
       /\ call.csr.rowptr[0] = 0
       /\ \A p \in 1..call.csr.n_rows : call.csr.rowptr[p - 1] <= call.csr.rowptr[p]
       /\ call.csr.rowptr[call.csr.n_rows] = call.csr.nnz

\* C28: csr_from_diag(vals, nnz, offset, M) either raises, or writes no
\* rowptr cell outside the n_rows + 1 cells, lists only columns of the shape,
\* and leaves the matrix that coo_from_diag builds from the same arguments:
\* vals[k] at (k, k + offset) for offset >= 0, at (k - offset, k) for
\* offset < 0, zero elsewhere.
C28_CsrFromDiagMatchesCoo ==
    \* Entry (i, j) of a CSR matrix: the sum of the values that row i lists at
    \* column j.
    LET CsrEntry(M, i, j) ==
            LET held == {ell \in 0..(M.nnz - 1) :
                            /\ M.rowptr[i] <= ell /\ ell < M.rowptr[i + 1] /\ M.colidxs[ell] = j}
                RECURSIVE sum(_)
                sum(Z) == IF Z = {} THEN 0 ELSE LET ell == CHOOSE x \in Z : TRUE
                                               IN  M.vals[ell] + sum(Z \ {ell})
            IN  sum(held)
    IN
        (call.fn = "csr_from_diag" /\ ~raised)
        => LET M == call.csr
               built == coo_from_diag(call.vals, call.nnz, call.offset,
                                      COOMatrixOwning(M.n_rows, M.n_cols))
           IN  /\ ~call.oob_write
               /\ \A ell \in 0..(M.nnz - 1) : M.colidxs[ell] \in 0..(M.n_cols - 1)
               /\ ~built.raised
               /\ \A ell \in 0..(built.coo.nnz - 1) :
                     /\ built.coo.rows[ell] \in 0..(M.n_rows - 1)
                     /\ built.coo.cols[ell] \in 0..(M.n_cols - 1)
               /\ \A i \in 0..(M.n_rows - 1), j \in 0..(M.n_cols - 1) :
                     CsrEntry(M, i, j) = CooEntry(built.coo, i, j)

\* The words of state x: its counter and its key.
WordsOf(heap, x) == <<heap[S[x].ctr], heap[S[x].key]>>

\* C30: two states built by RNGState(c0, k0) from equal arguments hold equal
\* counter and key words; a copy holds the words of its source in arrays of
\* its own; a write to one state changes no word of the other.
C30_StateWordsFromArguments ==
    /\ (call.fn = "RNGState")
       => \A y \in DOMAIN S \ {call.x} :
            (A[S[y].ctr][0] = call.c0 /\ A[S[y].key][0] = call.k0)
            => WordsOf(A, y) = WordsOf(A, call.x)
    /\ (call.fn = "copy")
       => /\ WordsOf(A, call.x) = WordsOf(A, call.y)
          /\ {S[call.x].ctr, S[call.x].key} \cap {S[call.y].ctr, S[call.y].key} = {}
          /\ S[call.x].ctr # S[call.x].key
    /\ (call.fn = "write")
       => \A y \in DOMAIN S \ {call.x} : WordsOf(A, y) = WordsOf(call.before, y)

\* C27: a reserve(nnz), called directly or by coo_to_csr, csr_to_coo,
\* dense_to_csr or csr_from_diag on their target, takes effect only on an
\* owning matrix never reserved before: then nnz is set, the value and index
\* arrays have nnz cells (rowptr n_rows + 1) and _can_reserve is cleared;
\* on any other matrix the call raises and leaves the matrix as it was.
C27_ReserveOnlyFreshOwning ==
    (call.fn \in {"reserve", "coo_to_csr", "csr_to_coo", "dense_to_csr", "csr_from_diag"})
    => IF call.before.own_memory /\ call.before.can_reserve
       THEN /\ S.nnz = call.nnz
            /\ ~S.can_reserve
            /\ S.own_memory
            /\ call.fn = "reserve" => (~raised /\ S.vals = NoCells)
            /\ call.sizes = IF IsCsr(S)
                             THEN [rowptr |-> S.n_rows + 1, colidxs |-> call.nnz, vals |-> call.nnz]
                             ELSE [vals |-> call.nnz, rows |-> call.nnz, cols |-> call.nnz]
       ELSE raised /\ S = call.before

\* C27 witness: a second reserve on an owning matrix, and a conversion onto a
\* view, have been refused.
C27_Witness ==
    /\ call.fn = "reserve"
    /\ raised
    /\ call.before.own_memory
    /\ ~call.before.can_reserve
    /\ call.nnz # call.before.nnz

\* C23: for a zero-based S0 flagged and sorted CSC and a window inside it,
\* apply_coo_left leaves
\* B[i,k] = B_in[i,k] + alpha * sum_j S0[row_offset+i, col_offset+j] * A[j,k].
C23_ApplyCooLeftAccumulates ==
    (call.fn = "apply_coo_left" /\ call.S_in.sort = "CSC")
    => /\ ~raised
       /\ \A i \in 0..(call.d - 1), k \in 0..(call.n - 1) :
            B[Idx(call.layout_B, i, k, call.ldb)]
              = B_in[Idx(call.layout_B, i, k, call.ldb)]
                + call.alpha
                  * SumTo([j \in 0..(call.m - 1) |->
                              CooEntry(call.S_in, call.row_offset + i, call.col_offset + j)
                              * A[Idx(call.layout_A, j, k, call.lda)]], call.m)

\* C24: on CSC-sorted input set_filtered_csc_from_cscoo returns the number
\* of nonzeros inside the window, writes them in column-major order with
\* rows shifted by row_start, and leaves new_colptr[j] .. new_colptr[j+1]-1
\* as the positions of window column j in the output.
C24_FilteredCscIsTheWindow ==
    \* The positions of the nonzeros of Sm inside the window of call c, and the
    \* number of them in front of position ell or of window column j.
    LET WindowNonzeros(c) ==
            {ell \in 0..(c.S_in.nnz - 1) :
                /\ c.S_in.cols[ell] \in c.col_offset..(c.col_offset + c.m - 1)
                /\ c.S_in.rows[ell] \in c.row_offset..(c.row_offset + c.d - 1)}
        WindowBefore(c, ell) == Cardinality({o \in WindowNonzeros(c) : o < ell})
        WindowBeforeColumn(c, j) ==
            Cardinality({o \in WindowNonzeros(c) : c.S_in.cols[o] < c.col_offset + j})
    IN
        (call.fn = "apply_coo_left" /\ call.S_in.sort = "CSC")
        => LET f == call.filtered
           IN  /\ f.new_nnz = Cardinality(WindowNonzeros(call))
               /\ \A ell \in WindowNonzeros(call) :
                     /\ f.new_vals[WindowBefore(call, ell)] = call.S_in.vals[ell]
                     /\ f.new_rowidxs[WindowBefore(call, ell)]
                          = call.S_in.rows[ell] - call.row_offset
               /\ \A j \in 0..call.m : f.new_colptr[j] = WindowBeforeColumn(call, j)

\* C25: when S0 is not flagged CSC, apply_coo_left returns with the arrays
\* of S0 holding the triples in the order they had, and the flag it had.
C25_TransientResort ==
    (call.fn = "apply_coo_left" /\ call.S_in.sort # "CSC")
    => /\ S.vals = call.S_in.vals
       /\ S.rows = call.S_in.rows
       /\ S.cols = call.S_in.cols
       /\ S.sort = call.S_in.sort

\* C29: in apply_coo_left on a CSC-flagged S0 every access to the column
\* pointer array stays inside its m cells, every cell read was assigned by
\* the scan, and every position read in the filtered arrays is below the
\* filtered nonzero count.
C29_ColptrAccessInBounds ==
    \* The cells of new_colptr read by the j-loop of set_filtered_csc_from_cscoo
    \* (new_colptr[j] and new_colptr[j+1]); apply_csc_to_vector_from_left reads
    \* colptr[c+1] for the same range.
    LET colptr_read(m) == {j : j \in 0..(m - 1)} \cup {j + 1 : j \in 0..(m - 1)}
    \* The positions i of vals and rowidxs that apply_csc_to_vector_from_left
    \* reads: i starts at 0 and advances while i < colptr[c+1].
        filtered_read(n_cols, colptr) == UNION {0..(colptr[c + 1] - 1) : c \in 0..(n_cols - 1)}
    IN
        (call.fn = "apply_coo_left" /\ call.S_in.sort = "CSC")
        => /\ colptr_read(call.m) \subseteq 0..(call.m - 1)
           /\ call.colptr_assigned \subseteq 0..(call.m - 1)
           /\ colptr_read(call.m) \subseteq call.colptr_assigned
           /\ filtered_read(call.m, call.filtered.new_colptr) \subseteq 0..(call.filtered.new_nnz - 1)

\* C22: in the parallel loop of apply_coo_left iteration k writes only
\* column k of B and reads only column k of A, no cell of B is written by
\* two iterations, and when all iterations have ended B is what the
\* iterations leave when run one after the other.
C22_IterationsKeepToTheirColumn ==
    \* Column k of B and of A: the cells &X[inter * k] + r * intra.
    LET ColumnCells(layout, k, extent, ld) == {Idx(layout, r, k, ld) : r \in 0..(extent - 1)}
    \* What the loop leaves in B when its iterations run one after the other.
        LoopSequential ==
            apply_coo_left_loop(0, call.n, call.m, A,
                IF call.layout_A = "ColMajor" THEN call.lda ELSE 1,
                IF call.layout_A = "ColMajor" THEN 1 ELSE call.lda,
                B_in,
                IF call.layout_B = "ColMajor" THEN call.ldb ELSE 1,
                IF call.layout_B = "ColMajor" THEN 1 ELSE call.ldb,
                [p \in 0..S.nnz |-> LoopVal(p)], [p \in 0..S.nnz |-> LoopRow(p)],
                [p \in 0..call.m |-> LoopColptr(p)])
    IN
        call.fn = "apply_coo_left_loop"
        => /\ \A k \in DOMAIN smp :
                /\ smp[k].wr \subseteq ColumnCells(call.layout_B, k, call.d, call.ldb)
                /\ smp[k].rd \subseteq ColumnCells(call.layout_A, k, call.m, call.lda)
           /\ \A k \in DOMAIN smp, o \in DOMAIN smp : k # o => smp[k].wr \cap smp[o].wr = {}
           /\ (\A k \in DOMAIN smp : smp[k].pc = "done") => B = LoopSequential

\* C26: on one TrigSkOp every lskget and fill_trig leaves known_filled
\* true, fill_trig sets next_state to the state its sampling returned, an
\* lskget on a filled operator leaves DiagonalRademacher, SampledRows and
\* next_state as they were, and a fill_trig on a filled operator writes
\* the values the first one wrote.
C26_FilledOnceAndForAll ==
    call.fn \in {"lskget", "fill_trig"}
    => /\ S.known_filled
       /\ S.next_state = repeated_fisher_yates(S.dim_short, S.dim_long, 1, S.seed_state).state
       /\ call.before.known_filled
            => /\ S.DiagonalRademacher = call.before.DiagonalRademacher
               /\ S.SampledRows = call.before.SampledRows
               /\ S.next_state = call.before.next_state

\* C21: in every sequence of constructions, reserves, copies by value,
\* transposes and destructions no buffer is released twice, no live matrix
\* or view refers to a released buffer, no caller's buffer is released by a
\* matrix, and a buffer a matrix allocated is released once all matrices
\* that refer to it are destroyed.
C21_BuffersReleasedOnce ==
    call.fn \in {"construct", "view", "reserve", "copy", "transpose", "destroy"}
    => /\ \A a \in BufAddrs : A[a].released <= 1
       /\ \A x \in ObjNames : (S[x].state = "live" /\ S[x].buf # 0) => A[S[x].buf].released = 0
       /\ \A a \in BufAddrs : A[a].by = "caller" => A[a].released = 0
       /\ \A a \in BufAddrs :
            (A[a].by = "matrix" /\ \A x \in ObjNames : S[x].buf = a => S[x].state = "dead")
            => A[a].released = 1

====
